---- MODULE Spec2Model ----
(***************************************************************************)
(* Quote aggregation, scoring and provider health monitoring of xroh-main  *)
(* (backend).                                                              *)
(*                                                                         *)
(* Conventions of the model                                                *)
(*   - time (now) is in seconds; Date.now() is now * 1000 ms;              *)
(*   - a decimal string such as output_amount is a record                  *)
(*     [isInt, val]: isInt says whether BigInt() parses it;                *)
(*   - scores are fixed point in 1/ScoreUnit of a point (100 points are    *)
(*     100 * ScoreUnit), weights are in 1/WeightUnit;                      *)
(*   - a value a function raises is a record with threw = TRUE.            *)
(***************************************************************************)
EXTENDS Integers, Sequences, FiniteSets, TLC

VARIABLES
    calls,      \* per request: position in QuotesController.getQuotes / aggregateQuotes
    cache,      \* the Redis keyspace: cache key -> entry
    now,        \* wall clock, seconds
    redis,      \* RedisService: "up", "down" (commands fail), "noclient" (client = null)
                \* or "hung" (connected, commands are never answered)
    dbUp,                   \* the database behind PrismaService answers queries
    providerReliability,    \* provider -> row of provider_reliability (or NoRow)
    userPreference,         \* wallet -> row of user_preferences (or NoRow)
    candidates,     \* the routes handed to scoreAndRankRoutes / compareRoutes
    ranked,         \* what scoreAndRankRoutes returned
    comparison,     \* what compareRoutes returned
    backups,        \* what getRecommendedRoute and getBackupRoutes returned
    scorings,       \* the invocations of calculateRouteScore, in order
    weightsIn,      \* the weight set handed to validateWeights
    sumRoundsOver,  \* rounding of its sum at the tolerance
    verdict,        \* what validateWeights returned: "none", "accepted", "rejected"
    saveOutcome,    \* the last save of a custom strategy: input and outcome
    healthCache,            \* ProviderHealthService.healthCache: provider -> status
    dbUnreachableLogged,    \* ProviderHealthService.dbUnreachableLogged
    failureRun,     \* provider -> unhealthy checks since its last healthy check
    upsertLost,     \* an upsert of the health monitor has failed
    healthRun,      \* the last run of performHealthChecks: outcomes, time, raised
    probes,         \* run -> its state and what its healthCheck promises resolved with
    upserts,        \* the upserts of updateReliabilityMetrics not yet settled
    warnLog,        \* 'DB unreachable' warnings logged; an upsert succeeded since the last
    apiKey,         \* the row of api_keys the calls present
    apiUsage,       \* rows of api_usage written
    useCalls,       \* per call of validateAndUseKey: position, what it read, outcome
    priceCache,     \* the priceCache object of ai.module.ts: prices and timestamp
    priceCalls      \* per call of getPrices: position, ids, result

aggVars == <<calls, cache, now, redis>>
dbVars == <<dbUp, providerReliability, userPreference>>
scoreVars == <<candidates, ranked, comparison, backups, scorings>>
weightVars == <<weightsIn, sumRoundsOver, verdict, saveOutcome>>
healthVars == <<healthCache, dbUnreachableLogged, failureRun, upsertLost, healthRun,
               probes, upserts, warnLog>>
keyVars == <<apiKey, apiUsage, useCalls>>
priceVars == <<priceCache, priceCalls>>

vars == <<calls, cache, now, redis, dbUp, providerReliability, userPreference,
          candidates, ranked, comparison, backups, scorings, weightsIn, sumRoundsOver, verdict,
          saveOutcome,
          healthCache, dbUnreachableLogged, failureRun, upsertLost, healthRun,
          probes, upserts, warnLog, apiKey, apiUsage, useCalls, priceCache, priceCalls>>


-----------------------------------------------------------------------------
(* Bounds *)

MaxCalls == 2       \* requests issued in one behaviour
MaxRand == 2        \* distinct values of the Math.random() suffix of a route_id
TickStep == 15      \* seconds the clock advances in one step
MaxTime == 30       \* last clock value explored
MaxRuns == 3        \* runs of performHealthChecks in one behaviour
MaxBackups == 3     \* largest count handed to getBackupRoutes
MaxScorings == 2    \* invocations of calculateRouteScore with the same arguments
MaxUses == 3        \* concurrent calls of validateAndUseKey on one key
MaxQuota == 2       \* largest available_requests the key starts with
MaxPriceCalls == 3  \* calls of getPrices in one behaviour

(* Program constants *)

CacheTtl == 30              \* cacheQuotes: setJson(key, result, 30)
ProviderTimeoutMs == 5000   \* fetchQuoteWithTimeout: timeout = 5000
MaxEstimatedTime == 86400   \* validateRoute: estimated_time > 86400
MaxOutputFactor == 2        \* validateRoute: outputAmount > inputAmount * 2
CronPeriod == 60            \* performHealthChecks: CronExpression.EVERY_MINUTE
DefaultBackupCount == 2     \* getBackupRoutes: count: number = 2
DefaultRequests == 10000    \* createKey: available_requests: 10000
PriceCacheTtl == 30         \* PRICE_CACHE_TTL = 30_000 ms

-----------------------------------------------------------------------------
(* Values *)

CallIds == 1..MaxCalls
RandomSuffixes == 1..MaxRand

DecStr(n) == [isInt |-> TRUE, val |-> n]        \* the string String(n)
NonIntStr == [isInt |-> FALSE, val |-> 0]       \* a string such as "1.5"
FracStr(n) == [isInt |-> FALSE, val |-> n]      \* the string of n + 0.5

\* BigInt(string): the value, or a SyntaxError for a string that is not an integer
BigInt(s) == IF s.isInt THEN [threw |-> FALSE, v |-> s.val]
                        ELSE [threw |-> TRUE, v |-> 0]

Null == [kind |-> "null"]
Undefined == [kind |-> "undefined"]

Min(S) == CHOOSE x \in S : \A y \in S : x <= y
Max(S) == CHOOSE x \in S : \A y \in S : x >= y

\* Array.prototype.sort on a short array, as V8 runs it, is an insertion sort:
\* each element goes before the first element it must precede
\* (comparefn(x, e) < 0, at the positions idxs) and after all the others.
InsertAt(t, x, idxs) ==
    LET p == IF idxs = {} THEN Len(t) + 1 ELSE Min(idxs)
    IN  SubSeq(t, 1, p - 1) \o <<x>> \o SubSeq(t, p, Len(t))

-----------------------------------------------------------------------------
(* Provider connectors *)

Providers == <<"lifi", "mayan", "changenow">>
ProviderNames == {Providers[i] : i \in 1..Len(Providers)}

supportedChains(p) ==
    CASE p = "lifi" -> {"ethereum", "polygon", "arbitrum", "optimism", "base",
                        "binance", "avalanche", "solana"}
      [] p = "mayan" -> {"solana", "ethereum", "polygon", "arbitrum", "base",
                         "avalanche"}
      [] p = "changenow" -> {"ethereum", "polygon", "arbitrum", "binance", "solana"}

\* variant: only the source chain is looked at
supportsRoute_SourceOnly(p, sourceChain, destinationChain) ==
    sourceChain \in supportedChains(p)

supportsRoute(p, sourceChain, destinationChain) ==
    sourceChain \in supportedChains(p) /\ destinationChain \in supportedChains(p)

\* ChangenowService.parseEstimatedTime: first number of the forecast, in
\* minutes; minutes < 0 stands for a forecast without digits
parseEstimatedTime(minutes) == IF minutes >= 0 THEN minutes * 60 ELSE 600

\* params.slippage_tolerance || 1.0, in percent
slippageTolerance(params) ==
    IF params.slippage_tolerance = Undefined THEN 1
    ELSE IF params.slippage_tolerance.val = 0 THEN 1
    ELSE params.slippage_tolerance.val

\* LifiService.getQuote: fromAddress of the routeOptions sent to getRoutes
fromAddress(params) ==
    IF params.user_wallet = Undefined THEN "0x0000000000000000000000000000000000000000"
    ELSE params.user_wallet.val

\* normalizeRoute of the three connectors. quote is the provider's answer:
\* out (the quoted amount as printed), secs (lifi executionDuration, mayan eta,
\* changenow forecast minutes) and gas (lifi gasCosts[0].amount).
normalizeRoute(p, quote, params, ts, rnd) ==
    [route_id |-> [provider |-> p, ts |-> ts, rnd |-> rnd],
     provider |-> p,
     source_chain |-> params.source_chain,
     destination_chain |-> params.destination_chain,
     source_token |-> params.source_token,
     destination_token |-> params.destination_token,
     input_amount |-> params.amount,
     output_amount |-> quote.out,
     total_fee |->
        [network_fee |-> CASE p = "lifi" -> DecStr(quote.gas)
                           [] p = "mayan" -> DecStr(5000)
                           [] p = "changenow" -> DecStr(0),
         bridge_fee |-> DecStr(0),
         protocol_fee |-> DecStr(0)],
     estimated_time |->
        CASE p = "lifi" -> (IF quote.secs = 0 THEN 60 ELSE quote.secs)
          [] p = "mayan" -> (IF quote.secs = 0 THEN 300 ELSE quote.secs)
          [] p = "changenow" -> parseEstimatedTime(quote.secs),
     slippage_risk |-> CASE p = "lifi" -> "low"
                         [] p = "mayan" -> "low"
                         [] p = "changenow" -> "medium",
     reliability_score |-> CASE p = "lifi" -> 950
                             [] p = "mayan" -> 920
                             [] p = "changenow" -> 880,
     liquidity_score |-> CASE p = "lifi" -> 850
                           [] p = "mayan" -> 880
                           [] p = "changenow" -> 900,
     slippage_tolerance |-> slippageTolerance(params),
     \* the LI.FI route is the one computed for the fromAddress of the request
     raw_provider_data |-> IF p = "lifi" THEN [fromAddress |-> fromAddress(params)]
                           ELSE Null]


-----------------------------------------------------------------------------
(* Requests and provider answers explored *)

DestinationChains == {"ethereum", "optimism"}
RequestAmounts == {1, 2}

ParamSet ==
    {[source_chain |-> "solana", destination_chain |-> d,
      source_token |-> "USDC", destination_token |-> "USDC",
      amount |-> DecStr(a), slippage_tolerance |-> Undefined,
      user_wallet |-> Undefined] : d \in DestinationChains, a \in RequestAmounts}

\* the requests for amount 1
CacheParamSet == {q \in ParamSet : q.amount = DecStr(1)}

\* optional fields of a request: slippage_tolerance in percent, user_wallet
SlippageTolerances == {Undefined, [kind |-> "number", val |-> 3]}
UserWallets == {Undefined, [kind |-> "string", val |-> "w1"]}

\* requests for one pair and amount 1 that differ in the optional fields only
KeyParamSet ==
    {[source_chain |-> "solana", destination_chain |-> "ethereum",
      source_token |-> "USDC", destination_token |-> "USDC",
      amount |-> DecStr(1), slippage_tolerance |-> s, user_wallet |-> w] :
        s \in SlippageTolerances, w \in UserWallets}

\* requests for one pair whose amount is "1" or "1.5"
AmountParamSet ==
    {[source_chain |-> "solana", destination_chain |-> "ethereum",
      source_token |-> "USDC", destination_token |-> "USDC",
      amount |-> a, slippage_tolerance |-> Undefined, user_wallet |-> Undefined] :
        a \in {DecStr(1), FracStr(1)}}

\* answers with amounts that are not whole: expectedAmountOut of Mayan and
\* toAmount of ChangeNOW are numbers printed with toString()
AmountMenu(p, a) ==
    CASE p = "lifi" -> {[out |-> DecStr(a), secs |-> 300, gas |-> 100]}
      [] p = "mayan" -> {[out |-> FracStr(a), secs |-> 300, gas |-> 0]}
      [] p = "changenow" -> {[out |-> DecStr(a), secs |-> 10, gas |-> 0],
                             [out |-> FracStr(a), secs |-> 10, gas |-> 0]}

\* answers a provider may give to a request for amount a
QuoteMenu(p, a) ==
    CASE p = "lifi" ->
            {[out |-> DecStr(a), secs |-> 300, gas |-> 100],
             [out |-> DecStr(MaxOutputFactor * a + 1), secs |-> 300, gas |-> 50]}
      [] p = "mayan" ->
            {[out |-> DecStr(MaxOutputFactor * a), secs |-> MaxEstimatedTime, gas |-> 0],
             [out |-> DecStr(0), secs |-> 0, gas |-> 0]}
      [] p = "changenow" ->
            {[out |-> DecStr(a), secs |-> 10, gas |-> 0],
             [out |-> DecStr(a), secs |-> 1441, gas |-> 0],
             [out |-> NonIntStr, secs |-> 10, gas |-> 0]}

-----------------------------------------------------------------------------
(* RedisService *)

NoEntry == [present |-> FALSE, value |-> Null, expiresAt |-> 0]

Live(e) == e.present /\ now < e.expiresAt

JSONstringify(v) == [json |-> v]
JSONparse(s) == s.json

\* a command sent to Redis settles: it is answered or it fails. The client is
\* created without a commandTimeout, so a command the server never answers
\* stays pending
RedisSettles == redis # "hung"

\* RedisService.get: null without a client, the stored string, or the
\* command's failure when the connection is down
RedisGet(key) ==
    IF redis = "noclient" THEN [threw |-> FALSE, value |-> Null]
    ELSE IF redis = "down" THEN [threw |-> TRUE, value |-> Null]
    ELSE [threw |-> FALSE, value |-> IF Live(cache[key]) THEN cache[key].value ELSE Null]

getJson(key) ==
    IF redis = "noclient" THEN [threw |-> FALSE, value |-> Null]
    ELSE LET r == RedisGet(key)
         IN  IF r.threw THEN r
             ELSE IF r.value = Null THEN [threw |-> FALSE, value |-> Null]
             ELSE [threw |-> FALSE, value |-> JSONparse(r.value)]

\* variant: an entry that is still alive is kept
setJson_IfAbsent(key, value, ttlSeconds) ==
    IF redis = "noclient" THEN [threw |-> FALSE, cache |-> cache]
    ELSE IF redis = "down" THEN [threw |-> TRUE, cache |-> cache]
    ELSE IF cache[key].present /\ cache[key].expiresAt > now
    THEN [threw |-> FALSE, cache |-> cache]
    ELSE [threw |-> FALSE,
          cache |-> [cache EXCEPT ![key] =
                        [present |-> TRUE, value |-> JSONstringify(value),
                         expiresAt |-> now + ttlSeconds]]]

\* RedisService.setJson followed by set: the keyspace after the call, and
\* whether the call raised
setJson(key, value, ttlSeconds) ==
    IF redis = "noclient" THEN [threw |-> FALSE, cache |-> cache]
    ELSE IF redis = "down" THEN [threw |-> TRUE, cache |-> cache]
    ELSE [threw |-> FALSE,
          cache |-> [cache EXCEPT ![key] =
                        [present |-> TRUE, value |-> JSONstringify(value),
                         expiresAt |-> now + ttlSeconds]]]

-----------------------------------------------------------------------------
(* QuoteAggregatorService *)

\* variant: the key also tells the slippage tolerance and the wallet apart
buildCacheKey_AllFields(params) ==
    <<"quote", params.source_chain, params.destination_chain,
      params.source_token, params.destination_token, params.amount,
      params.slippage_tolerance, params.user_wallet>>

buildCacheKey(params) ==
    <<"quote", params.source_chain, params.destination_chain,
      params.source_token, params.destination_token, params.amount>>

CacheKeys == {buildCacheKey(q) : q \in ParamSet \cup KeyParamSet \cup AmountParamSet}

\* variant: a failure of getJson is passed on to aggregateQuotes
getCachedQuotes_NoCatch(key) == getJson(key)

\* getCachedQuotes: a failure of getJson is caught and read as a miss
getCachedQuotes(key) ==
    LET r == getJson(key)
    IN  IF r.threw THEN [threw |-> FALSE, value |-> Null] ELSE r

\* variant: a result without routes is not stored
cacheQuotes_SkipsEmpty(key, result) ==
    IF result.total_routes = 0 \/ setJson(key, result, CacheTtl).threw
    THEN [threw |-> FALSE, cache |-> cache]
    ELSE setJson(key, result, CacheTtl)

\* variant: the result is never stored
cacheQuotes_Dropped(key, result) == [threw |-> FALSE, cache |-> cache]

\* cacheQuotes: the keyspace after the call; a failure of setJson is caught
\* and logged
cacheQuotes(key, result) ==
    LET r == setJson(key, result, CacheTtl)
    IN  IF r.threw THEN [threw |-> FALSE, cache |-> r.cache] ELSE r

Slot(kind, value) == [kind |-> kind, value |-> value]

\* the promise of fetchQuoteWithTimeout for what happened to the provider call:
\* the route when getQuote won the race; in every other case the catch block
\* returns null
fetchQuoteWithTimeout(slot) ==
    IF slot.kind = "route"
    THEN [status |-> "fulfilled", value |-> slot.value]
    ELSE [status |-> "fulfilled", value |-> Null]

\* variant: no bound on estimated_time
validateRoute_NoTimeBound(route) ==
    LET outputAmount == BigInt(route.output_amount)
        inputAmount == BigInt(route.input_amount)
    IN  IF outputAmount.threw \/ inputAmount.threw THEN FALSE
        ELSE IF outputAmount.v <= 0 THEN FALSE
        ELSE IF outputAmount.v > inputAmount.v * MaxOutputFactor THEN FALSE
        ELSE TRUE

\* variant: the amounts are compared as numbers, fractions included
validateRoute_ParseFloat(route) ==
    LET outputHalves == 2 * route.output_amount.val +
                            (IF route.output_amount.isInt THEN 0 ELSE 1)
        inputHalves == 2 * route.input_amount.val +
                            (IF route.input_amount.isInt THEN 0 ELSE 1)
    IN  IF outputHalves <= 0 THEN FALSE
        ELSE IF outputHalves > inputHalves * MaxOutputFactor THEN FALSE
        ELSE IF route.estimated_time > MaxEstimatedTime THEN FALSE
        ELSE TRUE

validateRoute(route) ==
    LET outputAmount == BigInt(route.output_amount)
        inputAmount == BigInt(route.input_amount)
    IN  IF outputAmount.threw \/ inputAmount.threw THEN FALSE
        ELSE IF outputAmount.v <= 0 THEN FALSE
        ELSE IF outputAmount.v > inputAmount.v * MaxOutputFactor THEN FALSE
        ELSE IF route.estimated_time > MaxEstimatedTime THEN FALSE
        ELSE TRUE

\* variant: the smaller amount goes first
AmountBefore_Ascending(a, b) == BigInt(a.output_amount).v < BigInt(b.output_amount).v

\* variant: of two equal amounts the route normalized first goes first
AmountBefore_EarlierArrivalFirst(a, b) ==
    \/ BigInt(a.output_amount).v > BigInt(b.output_amount).v
    \/ /\ BigInt(a.output_amount).v = BigInt(b.output_amount).v
       /\ a.route_id.ts < b.route_id.ts

\* comparator of the amount sort: amountA > amountB ? -1 : 1
AmountBefore(a, b) == BigInt(a.output_amount).v > BigInt(b.output_amount).v

\* validRoutes.sort(...)
sortByAmount(s) ==
    LET sorted[k \in 0..Len(s)] ==
            IF k = 0 THEN <<>>
            ELSE InsertAt(sorted[k - 1], s[k],
                          {i \in 1..(k - 1) : AmountBefore(s[k], sorted[k - 1][i])})
    IN  sorted[Len(s)]

\* the two branches of the loop over the settled results
Success(result) == result.status = "fulfilled" /\ result.value # Null
Failed(result) == ~Success(result) /\ result.status = "rejected"

\* variant: the loop gives up at the first connector without a route
collectRoutes_StopsAtFailure(results) ==
    LET collected[k \in 0..Len(results)] ==
            IF k = 0 THEN <<>>
            ELSE IF \A j \in 1..k : Success(results[j])
            THEN Append(collected[k - 1], results[k].value)
            ELSE collected[k - 1]
    IN  collected[Len(results)]

\* the loop over the settled results, as far as it fills routes
collectRoutes(results) ==
    LET collected[k \in 0..Len(results)] ==
            IF k = 0 THEN <<>>
            ELSE IF Success(results[k]) THEN Append(collected[k - 1], results[k].value)
            ELSE collected[k - 1]
    IN  collected[Len(results)]

\* the loop over the settled results, as far as it fills providerStatuses
collectStatuses(results) ==
    [p \in {Providers[i] : i \in {j \in 1..Len(results) :
                                   Success(results[j]) \/ Failed(results[j])}} |->
        IF \E i \in 1..Len(results) : Providers[i] = p /\ Success(results[i])
        THEN "success" ELSE "failed"]

\* aggregateQuotes from the settled fan-out to the result: collect, validate,
\* sort, build
processResults(slots, startTime) ==
    LET results == [i \in 1..Len(Providers) |-> fetchQuoteWithTimeout(slots[Providers[i]])]
        routes == collectRoutes(results)
        providerStatuses == collectStatuses(results)
        filtered == SelectSeq(routes, validateRoute)
        validRoutes == sortByAmount(filtered)
    IN  [threw |-> Len(filtered) >= 2 /\
                   \E i \in 1..Len(filtered) : BigInt(filtered[i].output_amount).threw,
         routes |-> validRoutes,
         provider_statuses |-> providerStatuses,
         total_routes |-> Len(validRoutes),
         response_time_ms |-> (now - startTime) * 1000]

NoResult == [threw |-> FALSE, routes |-> <<>>, provider_statuses |-> <<>>, total_routes |-> -1,
             response_time_ms |-> -1]

IdleCall ==
    [pc |-> "idle", params |-> Null, startTime |-> 0,
     slots |-> [p \in ProviderNames |-> Slot("none", Null)],
     result |-> NoResult, hit |-> FALSE, raised |-> FALSE,
     wrote |-> FALSE, readUp |-> FALSE, returnedAt |-> 0, after |-> {},
     asked |-> [p \in ProviderNames |-> 0],
     late |-> [p \in ProviderNames |-> Null],
     response |-> [status |-> "none"]]

\* variant: a slot whose timeout has fired still counts as pending
Settled_TimeoutPending(slot) == slot.kind \in {"route", "error", "unsupported"}

Settled(slot) == slot.kind \in {"route", "error", "timeout", "unsupported"}

\* a request arrives: aggregateQuotes takes startTime and awaits the cache
StartCall(c, params) ==
    /\ calls[c].pc = "idle"
    /\ \A d \in CallIds : d < c => calls[d].pc # "idle"
    /\ calls' = [calls EXCEPT ![c] =
                    [@ EXCEPT !.pc = "cacheRead", !.params = params,
                              !.startTime = now,
                              !.after = {d \in CallIds : calls[d].pc = "returned"}]]
    /\ UNCHANGED <<cache, now, redis, dbVars, scoreVars, weightVars, healthVars, keyVars, priceVars>>

\* variant: the cached result is returned as it is
hitResult_Copied(cached, startTime) == cached

\* { ...cached, response_time_ms: Date.now() - startTime }
hitResult(cached, startTime) ==
    [cached EXCEPT !.response_time_ms = (now - startTime) * 1000]

\* the cache answers: a hit returns the cached result with a fresh
\* response_time_ms, a miss dispatches fetchQuoteWithTimeout to every provider
\* (a provider that does not support the route fails at once)
CacheRead(c) ==
    /\ calls[c].pc = "cacheRead"
    /\ RedisSettles                  \* await this.getCachedQuotes(cacheKey)
    /\ LET params == calls[c].params
           r == getCachedQuotes(buildCacheKey(params))
           cached == r.value
       IN  IF r.threw
           THEN calls' = [calls EXCEPT ![c] =
                    [@ EXCEPT !.pc = "returned", !.raised = TRUE]]
           ELSE IF cached # Null
           THEN calls' = [calls EXCEPT ![c] =
                    [@ EXCEPT !.pc = "returned", !.hit = TRUE,
                              !.readUp = (redis = "up"), !.returnedAt = now,
                              !.result = hitResult(cached, calls[c].startTime)]]
           ELSE calls' = [calls EXCEPT ![c] =
                    [@ EXCEPT !.pc = "fetching",
                              !.readUp = (redis = "up"),
                              !.asked = [p \in ProviderNames |->
                                  IF supportsRoute(p, params.source_chain,
                                                   params.destination_chain)
                                  THEN calls[c].asked[p] + 1 ELSE calls[c].asked[p]],
                              !.slots = [p \in ProviderNames |->
                                  IF supportsRoute(p, params.source_chain,
                                                   params.destination_chain)
                                  THEN Slot("pending", Null)
                                  ELSE Slot("unsupported", Null)]]]
    /\ UNCHANGED <<cache, now, redis, dbVars, scoreVars, weightVars, healthVars, keyVars, priceVars>>

\* getQuote of provider p resolves before the timeout
ProviderResponds(c, p, quote, rnd) ==
    /\ calls[c].pc = "fetching"
    /\ calls[c].slots[p].kind = "pending"
    /\ calls' = [calls EXCEPT ![c].slots[p] =
                    Slot("route", normalizeRoute(p, quote, calls[c].params,
                                                 now * 1000, rnd))]
    /\ UNCHANGED <<cache, now, redis, dbVars, scoreVars, weightVars, healthVars, keyVars, priceVars>>

Responds(c, p, rnd) ==
    /\ calls[c].pc = "fetching"
    /\ \E quote \in QuoteMenu(p, calls[c].params.amount.val) :
          ProviderResponds(c, p, quote, rnd)

\* getQuote of provider p rejects before the timeout
ProviderFails(c, p) ==
    /\ calls[c].pc = "fetching"
    /\ calls[c].slots[p].kind = "pending"
    /\ calls' = [calls EXCEPT ![c].slots[p] = Slot("error", Null)]
    /\ UNCHANGED <<cache, now, redis, dbVars, scoreVars, weightVars, healthVars, keyVars, priceVars>>

\* the timeout of provider p fires first
ProviderTimesOut(c, p) ==
    /\ calls[c].pc = "fetching"
    /\ calls[c].slots[p].kind = "pending"
    /\ calls' = [calls EXCEPT ![c].slots[p] = Slot("timeout", Null)]
    /\ UNCHANGED <<cache, now, redis, dbVars, scoreVars, weightVars, healthVars, keyVars, priceVars>>

\* variant: the answer of a connector that lost the race takes the place of
\* the timeout
settleAfterRace_Adopted(slot, route) == Slot("route", route)

\* Promise.race has settled with the timeout: what getQuote delivers afterwards
\* settles a promise nobody awaits and the outcome of the race stays as it is
settleAfterRace(slot, route) == slot

\* getQuote of provider p resolves after its timeout has fired
ProviderAnswersLate(c, p, quote, rnd) ==
    /\ calls[c].pc \in {"fetching", "cacheWrite", "returned", "responded"}
    /\ calls[c].slots[p].kind = "timeout"
    /\ calls[c].late[p] = Null
    /\ LET route == normalizeRoute(p, quote, calls[c].params, now * 1000, rnd)
       IN  calls' = [calls EXCEPT ![c] =
                [@ EXCEPT !.late[p] = route,
                          !.slots[p] = settleAfterRace(calls[c].slots[p], route)]]
    /\ UNCHANGED <<cache, now, redis, dbVars, scoreVars, weightVars, healthVars, keyVars, priceVars>>

AnswersLate(c, p, rnd) ==
    /\ calls[c].slots[p].kind = "timeout"
    /\ \E quote \in QuoteMenu(p, calls[c].params.amount.val) :
          ProviderAnswersLate(c, p, quote, rnd)

\* Promise.allSettled resolves: the result is built and the cache write issued
Join(c) ==
    /\ calls[c].pc = "fetching"
    /\ \A p \in ProviderNames : Settled(calls[c].slots[p])
    /\ LET r == processResults(calls[c].slots, calls[c].startTime)
       IN  IF r.threw
           THEN calls' = [calls EXCEPT ![c] =
                    [@ EXCEPT !.pc = "returned", !.raised = TRUE]]
           ELSE calls' = [calls EXCEPT ![c] =
                    [@ EXCEPT !.pc = "cacheWrite", !.result = r]]
    /\ UNCHANGED <<cache, now, redis, dbVars, scoreVars, weightVars, healthVars, keyVars, priceVars>>

\* the cache write completes (or fails) and aggregateQuotes returns
CacheWrite(c) ==
    /\ calls[c].pc = "cacheWrite"
    /\ RedisSettles                  \* await this.cacheQuotes(cacheKey, aggregatedResult)
    /\ LET r == cacheQuotes(buildCacheKey(calls[c].params), calls[c].result)
       IN  /\ cache' = r.cache
           /\ calls' = [calls EXCEPT ![c] =
                    [@ EXCEPT !.pc = "returned", !.raised = r.threw,
                              !.wrote = (redis = "up"), !.returnedAt = now]]
    /\ UNCHANGED <<now, redis, dbVars, scoreVars, weightVars, healthVars, keyVars, priceVars>>

\* time passes; Redis drops the entries whose TTL has run out
Tick ==
    /\ now + TickStep <= MaxTime
    /\ now' = now + TickStep
    /\ cache' = [k \in DOMAIN cache |->
                    IF cache[k].present /\ cache[k].expiresAt <= now + TickStep
                    THEN NoEntry ELSE cache[k]]
    /\ UNCHANGED <<calls, redis, dbVars, scoreVars, weightVars, healthVars, keyVars, priceVars>>

\* the Redis connection is lost / comes back
RedisDown ==
    /\ redis = "up"
    /\ redis' = "down"
    /\ UNCHANGED <<calls, cache, now, dbVars, scoreVars, weightVars, healthVars, keyVars, priceVars>>

RedisUp ==
    /\ redis = "down"
    /\ redis' = "up"
    /\ UNCHANGED <<calls, cache, now, dbVars, scoreVars, weightVars, healthVars, keyVars, priceVars>>

\* the server stops answering while the connection stays open
RedisHangs ==
    /\ redis = "up"
    /\ redis' = "hung"
    /\ UNCHANGED <<calls, cache, now, dbVars, scoreVars, weightVars, healthVars, keyVars, priceVars>>

InitAgg ==
    /\ calls = [c \in CallIds |-> IdleCall]
    /\ cache = [k \in CacheKeys |-> NoEntry]
    /\ now = 0
    /\ redis \in {"up", "noclient"}

-----------------------------------------------------------------------------
(* Numbers *)

ScoreUnit == 10 * 100       \* fixed point: 1 point = ScoreUnit
WeightUnit == 10 * 100      \* fixed point: weight 1.0 = WeightUnit
MantissaBits == 13          \* significand width of the model's doubles

Pow2(k) == 2 ^ k

\* number of binary digits of n > 0
BitLength(n) == Min({k \in 1..30 : n < Pow2(k)})

\* n rounded to a multiple of q, a tie going to the even multiple
RoundToEven(n, q) ==
    IF 2 * (n % q) < q THEN n - (n % q)
    ELSE IF 2 * (n % q) > q THEN n - (n % q) + q
    ELSE IF (n \div q) % 2 = 0 THEN n - (n % q)
    ELSE n - (n % q) + q

\* Number(bigint): the nearest double, ties to the even significand
ToNumber(n) ==
    IF n < Pow2(MantissaBits) THEN n
    ELSE RoundToEven(n, Pow2(BitLength(n) - MantissaBits))

\* a / b * 100 as a score (long division, to stay within the integers)
Ratio100(a, b) ==
    ((a * 100) \div b) * ScoreUnit + (((a * 100) % b) * ScoreUnit) \div b

\* Math.round(totalScore * 100) / 100 of a weighted sum, in hundredths of a point
RoundHundredths(weighted) ==
    LET d == (ScoreUnit * WeightUnit) \div 100
    IN  (2 * weighted + d) \div (2 * d)

-----------------------------------------------------------------------------
(* Stores behind PrismaService *)

NoRow == [exists |-> FALSE]

\* a row of provider_reliability, as far as the program reads or writes it
ReliabilityRow(rate, failures, healthy, lastRun) ==
    [exists |-> TRUE, success_rate |-> rate, consecutive_failures |-> failures,
     is_healthy |-> healthy, health_check_last_run |-> lastRun]

Wallets == {"w1"}
NoWallet == ""              \* user_wallet left out of the request

-----------------------------------------------------------------------------
(* StrategyService *)

Weights(f, s, r, sl, l) ==
    [fee_weight |-> f, speed_weight |-> s, reliability_weight |-> r,
     slippage_weight |-> sl, liquidity_weight |-> l]

WeightNames ==
    {"fee_weight", "speed_weight", "reliability_weight", "slippage_weight",
     "liquidity_weight"}

StrategyTypes ==
    {"lowest_cost", "fast_execution", "safety_first", "portfolio_balanced", "custom"}

predefinedStrategies(strategy) ==
    CASE strategy = "lowest_cost" -> Weights(600, 100, 100, 100, 100)
      [] strategy = "fast_execution" -> Weights(100, 600, 150, 100, 50)
      [] strategy = "safety_first" -> Weights(50, 50, 500, 200, 200)
      [] strategy = "portfolio_balanced" -> Weights(200, 200, 200, 200, 200)
      [] strategy = "custom" -> Weights(200, 200, 200, 200, 200)

\* names every object literal inherits from Object.prototype; looked up in
\* predefinedStrategies they give a function, which has no weights
ObjectPrototypeNames == {"constructor", "toString"}

\* getUserPreferences: the row, or null when there is none or the query fails
getUserPreferences(userWallet) ==
    IF ~dbUp THEN Null
    ELSE IF userPreference[userWallet].exists THEN userPreference[userWallet]
    ELSE Null

getStrategyWeights(strategy, userWallet) ==
    LET userPrefs == IF strategy = "custom" /\ userWallet # NoWallet
                     THEN getUserPreferences(userWallet) ELSE Null
    IN  IF userPrefs # Null /\ userPrefs.custom_weights # Null
        THEN userPrefs.custom_weights
        ELSE IF strategy \in StrategyTypes
        THEN predefinedStrategies(strategy)
        ELSE IF strategy \in ObjectPrototypeNames      \* strategyTemplate.weights
        THEN Undefined
        ELSE predefinedStrategies("portfolio_balanced")

\* validateWeights. The sum is an IEEE-754 sum of five doubles: when the
\* decimal sum is off 1.0 by exactly the tolerance, rounding decides on which
\* side of 0.01 the computed difference lands (roundsOver).
\* A weight object lacking one of the five properties adds undefined: the
\* sum is NaN, and NaN > 0.01 is false. Object.values yields the properties
\* the object has.
validateWeights(w, roundsOver) ==
    LET sum == w.fee_weight + w.speed_weight + w.reliability_weight +
               w.slippage_weight + w.liquidity_weight
        diff == IF sum >= WeightUnit THEN sum - WeightUnit ELSE WeightUnit - sum
        tolerance == WeightUnit \div 100
        sumIsNaN == ~(WeightNames \subseteq DOMAIN w)
        values == {w[k] : k \in DOMAIN w}
    IN  IF ~sumIsNaN /\ (diff > tolerance \/ (diff = tolerance /\ roundsOver)) THEN FALSE
        ELSE IF ~(\A v \in values : v >= 0 /\ v <= WeightUnit) THEN FALSE
        ELSE TRUE

\* saveUserStrategy: the table of user_preferences afterwards, or what it threw
saveUserStrategy(userWallet, weights, roundsOver) ==
    IF ~validateWeights(weights, roundsOver)
    THEN [threw |-> TRUE, message |-> "Invalid weights configuration",
          table |-> userPreference]
    ELSE IF ~dbUp                                   \* the upsert rejects
    THEN [threw |-> TRUE, message |-> "database unreachable",
          table |-> userPreference]
    ELSE [threw |-> FALSE, message |-> "",
          table |-> [userPreference EXCEPT ![userWallet] =
                        [exists |-> TRUE, default_strategy |-> "custom",
                         custom_weights |-> weights]]]

\* StrategyController.saveCustomStrategy: the response and the table afterwards
saveCustomStrategy(dto, roundsOver) ==
    IF ~validateWeights(dto.weights, roundsOver)
    THEN [success |-> FALSE,
          error |-> "Invalid weights. Weights must sum to 1.0 and be between 0 and 1",
          table |-> userPreference]
    ELSE IF saveUserStrategy(dto.user_wallet, dto.weights, roundsOver).threw
    THEN [success |-> FALSE,
          error |-> saveUserStrategy(dto.user_wallet, dto.weights, roundsOver).message,
          table |-> saveUserStrategy(dto.user_wallet, dto.weights, roundsOver).table]
    ELSE [success |-> TRUE, error |-> "",
          table |-> saveUserStrategy(dto.user_wallet, dto.weights, roundsOver).table]

-----------------------------------------------------------------------------
(* ScoringService *)

\* BigInt(network_fee) + BigInt(bridge_fee) + BigInt(protocol_fee) as a Number
TotalFeeNumber(route) ==
    LET networkFee == BigInt(route.total_fee.network_fee)
        bridgeFee == BigInt(route.total_fee.bridge_fee)
        protocolFee == BigInt(route.total_fee.protocol_fee)
    IN  IF networkFee.threw \/ bridgeFee.threw \/ protocolFee.threw
        THEN [threw |-> TRUE, v |-> 0]
        ELSE [threw |-> FALSE, v |-> ToNumber(networkFee.v + bridgeFee.v + protocolFee.v)]

\* variant: equal fees score nothing
calculateFeeScore_EqualIsZero(route, allRoutes) ==
    LET fees == [i \in 1..Len(allRoutes) |-> TotalFeeNumber(allRoutes[i])]
    IN  IF \E i \in 1..Len(allRoutes) : fees[i].threw THEN [threw |-> TRUE, v |-> 0]
        ELSE LET minFee == Min({fees[i].v : i \in 1..Len(allRoutes)})
                 maxFee == Max({fees[i].v : i \in 1..Len(allRoutes)})
                 routeFee == TotalFeeNumber(route)
             IN  IF minFee = maxFee THEN [threw |-> FALSE, v |-> 0]
                 ELSE IF routeFee.threw THEN [threw |-> TRUE, v |-> 0]
                 ELSE [threw |-> FALSE,
                       v |-> Ratio100(maxFee - routeFee.v, maxFee - minFee)]

calculateFeeScore(route, allRoutes) ==
    LET fees == [i \in 1..Len(allRoutes) |-> TotalFeeNumber(allRoutes[i])]
    IN  IF \E i \in 1..Len(allRoutes) : fees[i].threw THEN [threw |-> TRUE, v |-> 0]
        ELSE LET minFee == Min({fees[i].v : i \in 1..Len(allRoutes)})
                 maxFee == Max({fees[i].v : i \in 1..Len(allRoutes)})
                 routeFee == TotalFeeNumber(route)
             IN  IF minFee = maxFee THEN [threw |-> FALSE, v |-> 100 * ScoreUnit]
                 ELSE IF routeFee.threw THEN [threw |-> TRUE, v |-> 0]
                 ELSE [threw |-> FALSE,
                       v |-> Ratio100(maxFee - routeFee.v, maxFee - minFee)]

\* variant: the stored tier also loses a point for each consecutive failure
calculateReliabilityScore_CountsFailures(route) ==
    IF ~dbUp THEN route.reliability_score
    ELSE IF ~providerReliability[route.provider].exists THEN route.reliability_score
    ELSE (providerReliability[route.provider].success_rate * 100 * ScoreUnit) \div WeightUnit
         - providerReliability[route.provider].consecutive_failures * ScoreUnit

\* variant: equal times score nothing
calculateSpeedScore_EqualIsZero(route, allRoutes) ==
    LET times == {allRoutes[i].estimated_time : i \in 1..Len(allRoutes)}
        minTime == Min(times)
        maxTime == Max(times)
    IN  IF minTime = maxTime THEN 0
        ELSE Ratio100(maxTime - route.estimated_time, maxTime - minTime)

\* variant: the scale is not inverted, the slowest route scores 100
calculateSpeedScore_Direct(route, allRoutes) ==
    LET times == {allRoutes[i].estimated_time : i \in 1..Len(allRoutes)}
        minTime == Min(times)
        maxTime == Max(times)
    IN  IF minTime = maxTime THEN 100 * ScoreUnit
        ELSE Ratio100(route.estimated_time - minTime, maxTime - minTime)

calculateSpeedScore(route, allRoutes) ==
    LET times == {allRoutes[i].estimated_time : i \in 1..Len(allRoutes)}
        minTime == Min(times)
        maxTime == Max(times)
    IN  IF minTime = maxTime THEN 100 * ScoreUnit
        ELSE Ratio100(maxTime - route.estimated_time, maxTime - minTime)

\* success_rate is kept in 1/WeightUnit; success_rate * 100 is the score
calculateReliabilityScore(route) ==
    IF ~dbUp THEN route.reliability_score
    ELSE IF ~providerReliability[route.provider].exists THEN route.reliability_score
    ELSE (providerReliability[route.provider].success_rate * 100 * ScoreUnit) \div WeightUnit

calculateSlippageScore(route) ==
    CASE route.slippage_risk = "low" -> 100 * ScoreUnit
      [] route.slippage_risk = "medium" -> 60 * ScoreUnit
      [] route.slippage_risk = "high" -> 30 * ScoreUnit
      [] OTHER -> 50 * ScoreUnit

generateExplanation(route, feeScore, speedScore, reliabilityScore, weights) ==
    LET fee == IF weights.fee_weight * 10 > 3 * WeightUnit
               THEN IF feeScore > 80 * ScoreUnit THEN <<"Very competitive fees">>
                    ELSE IF feeScore > 50 * ScoreUnit THEN <<"Moderate fees">>
                    ELSE <<"Higher fees compared to alternatives">>
               ELSE <<>>
        speed == IF weights.speed_weight * 10 > 3 * WeightUnit
                 THEN IF speedScore > 80 * ScoreUnit THEN <<"Fast execution time">>
                      ELSE IF speedScore > 50 * ScoreUnit THEN <<"Average execution time">>
                      ELSE <<"Slower execution">>
                 ELSE <<>>
        reliability == IF weights.reliability_weight * 10 > 3 * WeightUnit
                       THEN IF reliabilityScore > 90 * ScoreUnit
                            THEN <<"Highly reliable provider">>
                            ELSE IF reliabilityScore > 70 * ScoreUnit
                            THEN <<"Reliable provider">>
                            ELSE <<"Lower reliability history">>
                       ELSE <<>>
        slippage == IF route.slippage_risk = "low" THEN <<"Low slippage risk">>
                    ELSE IF route.slippage_risk = "medium" THEN <<"Medium slippage risk">>
                    ELSE <<"Higher slippage risk">>
    IN  fee \o speed \o reliability \o slippage

\* the RouteScore; total_score is in hundredths of a point
calculateRouteScore(route, weights, allRoutes) ==
    LET fee == calculateFeeScore(route, allRoutes)
        feeScore == fee.v
        speedScore == calculateSpeedScore(route, allRoutes)
        reliabilityScore == calculateReliabilityScore(route)
        slippageScore == calculateSlippageScore(route)
        liquidityScore == route.liquidity_score
        totalScore == feeScore * weights.fee_weight +
                      speedScore * weights.speed_weight +
                      reliabilityScore * weights.reliability_weight +
                      slippageScore * weights.slippage_weight +
                      liquidityScore * weights.liquidity_weight
    IN  [threw |-> fee.threw,
         route_id |-> route.route_id,
         fee_score |-> feeScore,
         speed_score |-> speedScore,
         reliability_score |-> reliabilityScore,
         slippage_score |-> slippageScore,
         liquidity_score |-> liquidityScore,
         total_score |-> RoundHundredths(totalScore),
         explanation |-> generateExplanation(route, feeScore, speedScore,
                                             reliabilityScore, weights)]

-----------------------------------------------------------------------------
(* RouteComparisonService *)

\* variant: a comparator that puts the later of two equal scores first
ScoreBefore_TiesFirst(a, b) == b.score.total_score - a.score.total_score <= 0

\* comparator of the ranking sort: b.score.total_score - a.score.total_score
ScoreBefore(a, b) == b.score.total_score - a.score.total_score < 0

\* scoredRoutes.sort(...)
sortByScore(s) ==
    LET sorted[k \in 0..Len(s)] ==
            IF k = 0 THEN <<>>
            ELSE InsertAt(sorted[k - 1], s[k],
                          {i \in 1..(k - 1) : ScoreBefore(s[k], sorted[k - 1][i])})
    IN  sorted[Len(s)]

\* variant: no early return for an empty array, so that rankedRoutes[0].provider
\* is read of an empty array
scoreAndRankRoutes_NoEmptyGuard(routes, strategy, userWallet) ==
    LET weights == getStrategyWeights(strategy, userWallet)
        scoredRoutes == [i \in 1..Len(routes) |->
            [route |-> routes[i],
             score |-> calculateRouteScore(routes[i], weights, routes)]]
        sorted == sortByScore(scoredRoutes)
        rankedRoutes == [i \in 1..Len(sorted) |->
            [route |-> sorted[i].route, score |-> sorted[i].score, rank |-> i]]
    IN  IF weights = Undefined
        THEN [threw |-> TRUE, routes |-> <<>>]
        ELSE IF \E i \in 1..Len(routes) : scoredRoutes[i].score.threw
        THEN [threw |-> TRUE, routes |-> <<>>]
        ELSE IF Len(rankedRoutes) = 0
        THEN [threw |-> TRUE, routes |-> <<>>]
        ELSE [threw |-> FALSE, routes |-> rankedRoutes]

\* a ranked route is [route, score, rank]
scoreAndRankRoutes(routes, strategy, userWallet) ==
    IF Len(routes) = 0 THEN [threw |-> FALSE, routes |-> <<>>]
    ELSE LET weights == getStrategyWeights(strategy, userWallet)
             scoredRoutes == [i \in 1..Len(routes) |->
                 [route |-> routes[i],
                  score |-> calculateRouteScore(routes[i], weights, routes)]]
             sorted == sortByScore(scoredRoutes)
             rankedRoutes == [i \in 1..Len(sorted) |->
                 [route |-> sorted[i].route, score |-> sorted[i].score, rank |-> i]]
         IN  IF weights = Undefined             \* weights.fee_weight of undefined
             THEN [threw |-> TRUE, routes |-> <<>>]
             ELSE IF \E i \in 1..Len(routes) : scoredRoutes[i].score.threw
             THEN [threw |-> TRUE, routes |-> <<>>]
             ELSE IF Len(rankedRoutes) = 0      \* rankedRoutes[0].provider
             THEN [threw |-> TRUE, routes |-> <<>>]
             ELSE [threw |-> FALSE, routes |-> rankedRoutes]

getTotalFee(route) == TotalFeeNumber(route)

CheaperThan(a, b) == getTotalFee(a).v < getTotalFee(b).v
FasterThan(a, b) == a.estimated_time < b.estimated_time
SaferThan(a, b) == a.reliability_score > b.reliability_score

\* routes.reduce((min, route) => routeFee < minFee ? route : min)
cheapestOf(routes) ==
    LET acc[k \in 1..Len(routes)] ==
            IF k = 1 THEN routes[1]
            ELSE IF CheaperThan(routes[k], acc[k - 1]) THEN routes[k] ELSE acc[k - 1]
    IN  acc[Len(routes)]

\* routes.reduce((min, route) => route.estimated_time < min.estimated_time ? route : min)
fastestOf(routes) ==
    LET acc[k \in 1..Len(routes)] ==
            IF k = 1 THEN routes[1]
            ELSE IF FasterThan(routes[k], acc[k - 1]) THEN routes[k] ELSE acc[k - 1]
    IN  acc[Len(routes)]

\* routes.reduce((max, route) => route.reliability_score > max.reliability_score ? route : max)
safestOf(routes) ==
    LET acc[k \in 1..Len(routes)] ==
            IF k = 1 THEN routes[1]
            ELSE IF SaferThan(routes[k], acc[k - 1]) THEN routes[k] ELSE acc[k - 1]
    IN  acc[Len(routes)]

NoComparison == [called |-> FALSE, threw |-> FALSE, errorType |-> "", message |-> "",
                 value |-> Null]

\* compareRoutes past the guard against an empty array
compareSome(routes) ==
    IF \E i \in 1..Len(routes) : getTotalFee(routes[i]).threw
    THEN [called |-> TRUE, threw |-> TRUE, errorType |-> "SyntaxError",
          message |-> "Cannot convert to a BigInt", value |-> Null]
    ELSE LET cheapestRoute == cheapestOf(routes)
             fastestRoute == fastestOf(routes)
             safestRoute == safestOf(routes)
             cheapestFee == getTotalFee(cheapestRoute).v
             highestFee == Max({getTotalFee(routes[i]).v : i \in 1..Len(routes)})
             fastestTime == fastestRoute.estimated_time
             slowestTime == Max({routes[i].estimated_time : i \in 1..Len(routes)})
         IN  [called |-> TRUE, threw |-> FALSE, errorType |-> "", message |-> "",
              value |-> [cheapest_route |-> cheapestRoute,
                         fastest_route |-> fastestRoute,
                         safest_route |-> safestRoute,
                         savings_vs_cheapest |-> highestFee - cheapestFee,
                         time_difference |-> slowestTime - fastestTime]]

\* variant: an empty array is answered with a null comparison
compareRoutes_NullOnEmpty(routes) ==
    IF Len(routes) = 0
    THEN [called |-> TRUE, threw |-> FALSE, errorType |-> "", message |-> "",
          value |-> Null]
    ELSE compareSome(routes)

compareRoutes(routes) ==
    IF Len(routes) = 0
    THEN [called |-> TRUE, threw |-> TRUE, errorType |-> "Error",
          message |-> "No routes to compare", value |-> Null]
    ELSE compareSome(routes)

getRecommendedRoute(rankedRoutes) ==
    IF Len(rankedRoutes) > 0 THEN rankedRoutes[1] ELSE Null

\* variant: the slice ends at rank count
getBackupRoutes_ThroughRankCount(rankedRoutes, count) ==
    SubSeq(rankedRoutes, 2, Min({count, Len(rankedRoutes)}))

\* rankedRoutes.slice(1, count + 1)
getBackupRoutes(rankedRoutes, count) ==
    SubSeq(rankedRoutes, 2, Min({count + 1, Len(rankedRoutes)}))

-----------------------------------------------------------------------------
(* QuotesController.getQuotes, after aggregateQuotes has returned *)

EmptyId == [provider |-> "", ts |-> 0, rnd |-> 0]      \* the string ''

RequestStrategies == {"", "fast_execution"}

getQuotesResponse(call, strategy, userWallet) ==
    LET result == call.result
        used == IF strategy = "" THEN "lowest_cost" ELSE strategy
        scored == scoreAndRankRoutes(result.routes, used, userWallet)
        rankedRoutes == scored.routes
    IN  IF call.raised \/ scored.threw THEN [status |-> "error"]
        ELSE [status |-> "ok",
              routes |-> rankedRoutes,
              total_routes |-> result.total_routes,
              recommended_route_id |->
                  IF Len(rankedRoutes) > 0 THEN rankedRoutes[1].route.route_id
                  ELSE EmptyId,
              strategy_used |-> used,
              response_time_ms |-> result.response_time_ms,
              provider_statuses |-> result.provider_statuses]

Respond(c, strategy, userWallet) ==
    /\ calls[c].pc = "returned"
    /\ calls' = [calls EXCEPT ![c] =
                    [@ EXCEPT !.pc = "responded",
                              !.response = getQuotesResponse(calls[c], strategy, userWallet)]]
    /\ UNCHANGED <<cache, now, redis, dbVars, scoreVars, weightVars, healthVars, keyVars, priceVars>>

-----------------------------------------------------------------------------
(* Scoring requests and weight sets explored *)

MaxCandidates == 3

\* a candidate route
Candidate(n, p, network, bridge, protocol, time, risk, reliability, liquidity) ==
    [route_id |-> [provider |-> p, ts |-> 0, rnd |-> n],
     provider |-> p,
     source_chain |-> "solana", destination_chain |-> "ethereum",
     source_token |-> "USDC", destination_token |-> "USDC",
     input_amount |-> DecStr(10), output_amount |-> DecStr(10),
     total_fee |-> [network_fee |-> DecStr(network), bridge_fee |-> DecStr(bridge),
                    protocol_fee |-> DecStr(protocol)],
     estimated_time |-> time,
     slippage_risk |-> risk,
     reliability_score |-> reliability,
     liquidity_score |-> liquidity]

RouteA == Candidate(1, "lifi", 100, 0, 0, 300, "low", 950, 850)
RouteB == Candidate(2, "lifi", 50, 0, 0, 600, "low", 950, 850)
RouteC == Candidate(3, "lifi", 20, 20, 10, 600, "low", 950, 850)
RouteD == Candidate(4, "changenow", 60, 30, 10, 450, "medium", 880, 900)

CandidateMenu == {RouteA, RouteB, RouteC, RouteD}

\* fees at the first integers a double cannot tell apart
RouteE == Candidate(5, "mayan", Pow2(MantissaBits), 0, 0, 300, "low", 920, 880)
RouteF == Candidate(6, "mayan", Pow2(MantissaBits), 1, 0, 600, "low", 920, 880)
RouteG == Candidate(7, "mayan", Pow2(MantissaBits), 3, 1, 450, "low", 920, 880)

LargeFeeMenu == {RouteE, RouteF, RouteG}

\* sequences of distinct routes of a menu
DistinctSeqs(menu) ==
    UNION {{s \in [1..n -> menu] : \A i, j \in 1..n : i # j => s[i] # s[j]}
           : n \in 0..MaxCandidates}

CandidateSets == DistinctSeqs(CandidateMenu) \cup DistinctSeqs(LargeFeeMenu)

SavedWeights == Weights(0, 1000, 0, 0, 0)

NotRun == [threw |-> FALSE, routes |-> <<>>, strategy |-> "none", wallet |-> "",
           dbUp |-> FALSE, weights |-> Null]

\* contents of provider_reliability at the start
ReliabilityTables ==
    {[p \in ProviderNames |-> NoRow],
     [p \in ProviderNames |->
         IF p = "lifi" THEN ReliabilityRow(0, 0, TRUE, 0) ELSE NoRow],
     [p \in ProviderNames |->
         IF p = "lifi" THEN ReliabilityRow(900, 0, TRUE, 0) ELSE NoRow]}

\* ApiKeysService: one key and the calls that present it
UseIds == 1..MaxUses

NoKey == [exists |-> FALSE, is_active |-> FALSE, available_requests |-> 0,
          total_calls |-> 0]

\* a key created with DefaultRequests of which q are left
KeyRows ==
    {[exists |-> TRUE, is_active |-> a, available_requests |-> q,
      total_calls |-> DefaultRequests - q] : a \in BOOLEAN, q \in 0..MaxQuota}

NoUse == [pc |-> "idle", outcome |-> "none"]

IdleKeys ==
    /\ apiKey = NoKey
    /\ apiUsage = 0
    /\ useCalls = [u \in UseIds |-> NoUse]

\* TokensController: the module-level price cache and the calls of getPrices
PriceCallIds == 1..MaxPriceCalls
CoinIds == {"ethereum", "solana"}
IdSets == (SUBSET CoinIds) \ {{}}

\* priceCache = { prices: {}, timestamp: 0 }: the epoch lies more than a TTL
\* before the process starts; at is the time the price was fetched
NoPrices == [prices |-> [id \in CoinIds |-> Undefined], timestamp |-> 0 - PriceCacheTtl]

NoPriceCall == [pc |-> "idle", ids |-> {}, startedAt |-> 0, returnedAt |-> 0,
                fromCache |-> FALSE, result |-> [id \in CoinIds |-> Undefined]]

IdlePrices ==
    /\ priceCache = NoPrices
    /\ priceCalls = [k \in PriceCallIds |-> NoPriceCall]

InitDb ==
    /\ dbUp \in BOOLEAN
    /\ providerReliability \in ReliabilityTables
    /\ userPreference \in
          {[w \in Wallets |-> NoRow],
           [w \in Wallets |-> [exists |-> TRUE, custom_weights |-> Null]],
           [w \in Wallets |-> [exists |-> TRUE, custom_weights |-> SavedWeights]]}

IdleDb ==
    /\ dbUp = TRUE
    /\ providerReliability = [p \in ProviderNames |-> NoRow]
    /\ userPreference = [w \in Wallets |-> NoRow]

IdleAgg ==
    /\ calls = [c \in CallIds |-> IdleCall]
    /\ cache = [k \in CacheKeys |-> NoEntry]
    /\ now = 0
    /\ redis = "up"

NoBackups == [called |-> FALSE, count |-> 0, recommended |-> Null, routes |-> <<>>]

IdleScore ==
    /\ candidates = <<>>
    /\ ranked = NotRun
    /\ comparison = NoComparison
    /\ backups = NoBackups
    /\ scorings = <<>>

NoRun == [ran |-> FALSE, threw |-> FALSE, at |-> 0, dbUp |-> TRUE,
          outcome |-> [p \in ProviderNames |-> TRUE]]

RunIds == 1..MaxRuns

NoProbes == [state |-> "idle", results |-> [p \in ProviderNames |-> Null]]

NoWarnings == [warnings |-> 0, okSince |-> FALSE]

IdleHealth ==
    /\ healthRun = NoRun
    /\ probes = [r \in RunIds |-> NoProbes]
    /\ upserts = {}
    /\ warnLog = NoWarnings
    /\ healthCache = [p \in ProviderNames |-> Null]
    /\ dbUnreachableLogged = FALSE
    /\ failureRun = [p \in ProviderNames |-> 0]
    /\ upsertLost = FALSE

NoWeights == Weights(0, 0, 0, 0, 0)

NoSave == [called |-> FALSE]

IdleWeights ==
    /\ weightsIn = NoWeights
    /\ sumRoundsOver = FALSE
    /\ verdict = "none"
    /\ saveOutcome = NoSave

\* one ranking request is followed
ScoreAndRank(strategy, userWallet) ==
    /\ ranked = NotRun
    /\ LET r == scoreAndRankRoutes(candidates, strategy, userWallet)
       IN  ranked' = [threw |-> r.threw, routes |-> r.routes, strategy |-> strategy,
                      wallet |-> userWallet, dbUp |-> dbUp,
                      weights |-> IF Len(candidates) = 0 THEN Null
                                  ELSE getStrategyWeights(strategy, userWallet)]
    /\ UNCHANGED <<candidates, comparison, backups, scorings>>
    /\ UNCHANGED <<aggVars, dbVars, weightVars, healthVars, keyVars, priceVars>>

\* one comparison request is followed
CompareRoutes ==
    /\ comparison = NoComparison
    /\ comparison' = compareRoutes(candidates)
    /\ UNCHANGED <<candidates, ranked, backups, scorings>>
    /\ UNCHANGED <<aggVars, dbVars, weightVars, healthVars, keyVars, priceVars>>

DbDown ==
    /\ dbUp
    /\ dbUp' = FALSE
    /\ UNCHANGED <<providerReliability, userPreference>>
    /\ UNCHANGED <<aggVars, scoreVars, weightVars, healthVars, keyVars, priceVars>>

DbUp ==
    /\ ~dbUp
    /\ dbUp' = TRUE
    /\ UNCHANGED <<providerReliability, userPreference>>
    /\ UNCHANGED <<aggVars, scoreVars, weightVars, healthVars, keyVars, priceVars>>

ScoreStrategies == StrategyTypes \cup {"unknown", "constructor"}

InitScore ==
    /\ IdleHealth
    /\ IdleAgg
    /\ InitDb
    /\ candidates \in CandidateSets
    /\ ranked = NotRun
    /\ comparison = NoComparison
    /\ backups = NoBackups
    /\ scorings = <<>>
    /\ IdleWeights
    /\ IdleKeys
    /\ IdlePrices

NextScore ==
    \/ \E strategy \in ScoreStrategies, w \in Wallets \cup {NoWallet} :
          ScoreAndRank(strategy, w)
    \/ CompareRoutes
    \/ DbDown
    \/ DbUp

SpecScore == InitScore /\ [][NextScore]_vars

-----------------------------------------------------------------------------
(* A ranking followed by the choice of the recommended and the backup routes *)

BackupCounts == 0..MaxBackups

\* getRecommendedRoute(rankedRoutes) and getBackupRoutes(rankedRoutes, count)
\* on the list scoreAndRankRoutes returned
GetBackupRoutes(count) ==
    /\ ranked.strategy # "none"
    /\ ~ranked.threw
    /\ ~backups.called
    /\ backups' = [called |-> TRUE, count |-> count,
                   recommended |-> getRecommendedRoute(ranked.routes),
                   routes |-> getBackupRoutes(ranked.routes, count)]
    /\ UNCHANGED <<candidates, ranked, comparison, scorings>>
    /\ UNCHANGED <<aggVars, dbVars, weightVars, healthVars, keyVars, priceVars>>

\* getBackupRoutes(rankedRoutes): count takes its default
GetBackupRoutesDefault == GetBackupRoutes(DefaultBackupCount)

BackupStrategies == {"lowest_cost", "fast_execution"}

InitBackup ==
    /\ IdleAgg
    /\ IdleDb
    /\ candidates \in CandidateSets
    /\ ranked = NotRun
    /\ comparison = NoComparison
    /\ backups = NoBackups
    /\ scorings = <<>>
    /\ IdleWeights
    /\ IdleKeys
    /\ IdlePrices
    /\ IdleHealth

NextBackup ==
    \/ \E strategy \in BackupStrategies : ScoreAndRank(strategy, NoWallet)
    \/ \E count \in BackupCounts : GetBackupRoutes(count)
    \/ GetBackupRoutesDefault

SpecBackup == InitBackup /\ [][NextBackup]_vars

-----------------------------------------------------------------------------
(* Weight sets explored *)

WeightMenu == {-10, 0, 1, 9, 10, 490, 499, 500, 1000, 1010}
SmallWeightMenu == {0, 1}

\* weight sets whose sum is off 1.0 by the tolerance, in thousandths
\* (0.5 + 0.51, 0.5 + 0.49, 0.196 + 0.043 + 0.026 + 0.299 + 0.446,
\* 0.39 + 0.312 + 0.2 + 0.059 + 0.049), with the side of 0.01 on which
\* Math.abs(sum - 1.0) lands in IEEE-754 double arithmetic
BoundarySets ==
    {[w |-> Weights(500, 510, 0, 0, 0), over |-> TRUE],
     [w |-> Weights(500, 490, 0, 0, 0), over |-> TRUE],
     [w |-> Weights(196, 43, 26, 299, 446), over |-> TRUE],
     [w |-> Weights(390, 312, 200, 59, 49), over |-> FALSE]}

WeightSets ==
    {Weights(f, s, r, sl, l) :
        f \in WeightMenu, s \in WeightMenu, r \in WeightMenu,
        sl \in SmallWeightMenu, l \in SmallWeightMenu}

ValidateWeights ==
    /\ verdict = "none"
    /\ verdict' = IF validateWeights(weightsIn, sumRoundsOver)
                  THEN "accepted" ELSE "rejected"
    /\ UNCHANGED <<weightsIn, sumRoundsOver, saveOutcome>>
    /\ UNCHANGED <<aggVars, dbVars, scoreVars, healthVars, keyVars, priceVars>>

InitWeights ==
    /\ IdleHealth
    /\ IdleAgg
    /\ IdleDb
    /\ IdleScore
    /\ IdleKeys
    /\ IdlePrices
    /\ \/ /\ weightsIn \in WeightSets \ {b.w : b \in BoundarySets}
          /\ sumRoundsOver \in BOOLEAN
       \/ \E b \in BoundarySets : weightsIn = b.w /\ sumRoundsOver = b.over
    /\ verdict = "none"
    /\ saveOutcome = NoSave

NextWeights == ValidateWeights

SpecWeights == InitWeights /\ [][NextWeights]_vars

-----------------------------------------------------------------------------
(* Custom strategies saved through the service and through the endpoint *)

\* the weight objects handed in, with the rounding of the sum at the
\* tolerance: valid sets, a sum too low, a weight out of range, the sets on
\* the tolerance, and objects that lack properties
SaveInputs ==
    {[w |-> Weights(500, 500, 0, 0, 0), over |-> FALSE],
     [w |-> Weights(200, 200, 200, 200, 200), over |-> FALSE],
     [w |-> Weights(500, 0, 0, 0, 0), over |-> FALSE],
     [w |-> Weights(1010, -10, 0, 0, 0), over |-> FALSE],
     [w |-> [fee_weight |-> 300], over |-> FALSE],
     [w |-> [fee_weight |-> 1010], over |-> FALSE],
     [w |-> [fee_weight |-> 600, speed_weight |-> 600], over |-> FALSE]}
    \cup BoundarySets

SaveUserStrategy(userWallet, input) ==
    /\ LET r == saveUserStrategy(userWallet, input.w, input.over)
       IN  /\ userPreference' = r.table
           /\ saveOutcome' = [called |-> TRUE, via |-> "service",
                              user_wallet |-> userWallet, weights |-> input.w,
                              over |-> input.over, threw |-> r.threw,
                              message |-> r.message, dbUp |-> dbUp,
                              before |-> userPreference]
    /\ UNCHANGED <<weightsIn, sumRoundsOver, verdict>>
    /\ UNCHANGED <<dbUp, providerReliability>>
    /\ UNCHANGED <<aggVars, scoreVars, healthVars, keyVars, priceVars>>

SaveCustomStrategy(userWallet, input) ==
    /\ LET r == saveCustomStrategy([user_wallet |-> userWallet, weights |-> input.w],
                                   input.over)
       IN  /\ userPreference' = r.table
           /\ saveOutcome' = [called |-> TRUE, via |-> "endpoint",
                              user_wallet |-> userWallet, weights |-> input.w,
                              over |-> input.over, threw |-> FALSE,
                              message |-> r.error, dbUp |-> dbUp,
                              before |-> userPreference]
    /\ UNCHANGED <<weightsIn, sumRoundsOver, verdict>>
    /\ UNCHANGED <<dbUp, providerReliability>>
    /\ UNCHANGED <<aggVars, scoreVars, healthVars, keyVars, priceVars>>

InitSave ==
    /\ IdleHealth
    /\ IdleAgg
    /\ IdleScore
    /\ IdleWeights
    /\ IdleKeys
    /\ IdlePrices
    /\ InitDb

NextSave ==
    \/ \E userWallet \in Wallets, input \in SaveInputs : SaveUserStrategy(userWallet, input)
    \/ \E userWallet \in Wallets, input \in SaveInputs : SaveCustomStrategy(userWallet, input)
    \/ DbDown
    \/ DbUp

SpecSave == InitSave /\ [][NextSave]_vars

-----------------------------------------------------------------------------
(* ProviderHealthService *)

\* what healthCheck of a connector resolves with; it never rejects
healthCheck(p, healthy, at) ==
    [provider |-> p, is_healthy |-> healthy, last_checked |-> at]

\* variant: the upsert also keeps success_rate, 1.0 after a healthy check
upsertReliability_WritesSuccessRate(row, health) ==
    IF ~row.exists
    THEN ReliabilityRow(IF health.is_healthy THEN WeightUnit ELSE 0, 0,
                        health.is_healthy, health.last_checked)
    ELSE [row EXCEPT !.is_healthy = health.is_healthy,
                     !.health_check_last_run = health.last_checked,
                     !.success_rate = IF health.is_healthy THEN WeightUnit ELSE 0,
                     !.consecutive_failures = IF health.is_healthy THEN 0 ELSE @ + 1]

\* prisma.providerReliability.upsert of updateReliabilityMetrics: the row
\* after the statement. create leaves success_rate and consecutive_failures
\* to the defaults of their columns.
upsertReliability(row, health) ==
    IF ~row.exists
    THEN ReliabilityRow(0, 0, health.is_healthy, health.last_checked)
    ELSE [row EXCEPT !.is_healthy = health.is_healthy,
                     !.health_check_last_run = health.last_checked,
                     !.consecutive_failures = IF health.is_healthy THEN 0 ELSE @ + 1]

\* updateReliabilityMetrics: the row after the call; a failure of the upsert
\* is caught and logged
updateReliabilityMetrics(row, health) ==
    IF dbUp THEN [threw |-> FALSE, failed |-> FALSE, row |-> upsertReliability(row, health)]
    ELSE [threw |-> FALSE, failed |-> TRUE, row |-> row]

\* variant: the flag is cleared by every attempt
flagAfter_AlwaysCleared(failed, logged) == FALSE

\* dbUnreachableLogged after an upsert: cleared by a success, set by a failure
flagAfter(failed, logged) == failed

\* the catch block warns when the flag is not set
logsWarning(failed, logged) == failed /\ ~logged

\* the log after an upsert settled with the flag as it was
warnLogAfter(failed, logged) ==
    IF ~failed THEN [warnLog EXCEPT !.okSince = TRUE]
    ELSE IF logsWarning(failed, logged)
    THEN [warnings |-> warnLog.warnings + 1, okSince |-> FALSE]
    ELSE warnLog

\* variant: the map is left as it was when the database cannot be reached
setHealthCache_NeedsDb(before, health) == IF dbUp THEN health ELSE before

\* the loop over the settled probes, as far as it fills healthCache: every
\* probe is fulfilled and its entry overwritten
setHealthCache(before, health) == health

\* one run of performHealthChecks, a minute after the last: every connector
\* is probed, the health map is overwritten and each outcome is upserted
PerformHealthChecks(outcome) ==
    /\ now \div CronPeriod < MaxRuns
    /\ now' = now + CronPeriod
    /\ LET health == [p \in ProviderNames |-> healthCheck(p, outcome[p], now + CronPeriod)]
           updated == [p \in ProviderNames |->
                          updateReliabilityMetrics(providerReliability[p], health[p])]
       IN  /\ healthCache' = setHealthCache(healthCache, health)
           /\ providerReliability' = [p \in ProviderNames |-> updated[p].row]
           /\ dbUnreachableLogged' = flagAfter(~dbUp, dbUnreachableLogged)
           /\ warnLog' = warnLogAfter(~dbUp, dbUnreachableLogged)
           /\ healthRun' = [ran |-> TRUE,
                          threw |-> \E p \in ProviderNames : updated[p].threw,
                          at |-> now + CronPeriod, dbUp |-> dbUp, outcome |-> outcome]
           /\ failureRun' = [p \in ProviderNames |->
                                IF outcome[p] THEN 0 ELSE failureRun[p] + 1]
           /\ upsertLost' = (upsertLost \/ ~dbUp)
    /\ UNCHANGED <<probes, upserts>>
    /\ UNCHANGED <<calls, cache, redis, dbUp, userPreference, scoreVars, weightVars, keyVars, priceVars>>

InitHealth ==
    /\ IdleAgg
    /\ IdleDb
    /\ IdleScore
    /\ IdleWeights
    /\ IdleKeys
    /\ IdlePrices
    /\ IdleHealth

NextHealth ==
    \/ \E outcome \in [ProviderNames -> BOOLEAN] : PerformHealthChecks(outcome)
    \/ DbDown
    \/ DbUp

SpecHealth == InitHealth /\ [][NextHealth]_vars

-----------------------------------------------------------------------------
(* The health monitor step by step: the cron starts a run every minute
   whether or not the last one has finished, every healthCheck settles on its
   own, the run goes on when all have settled, and the upserts it issues
   settle later, each finding the database up or down *)

MaxOverlap == 2     \* runs whose probes are followed one by one
MaxPromptRuns == 2  \* runs whose upserts are followed one by one

\* the cron fires: run r calls healthCheck of every connector
CronFires(r) ==
    /\ now \div CronPeriod < MaxOverlap
    /\ probes[r].state = "idle"
    /\ \A q \in RunIds : q < r => probes[q].state # "idle"
    /\ now' = now + CronPeriod
    /\ probes' = [probes EXCEPT ![r].state = "probing"]
    /\ UNCHANGED <<healthCache, dbUnreachableLogged, failureRun, upsertLost, healthRun,
                   upserts, warnLog>>
    /\ UNCHANGED <<calls, cache, redis, dbVars, scoreVars, weightVars, keyVars, priceVars>>

\* healthCheck of connector p resolves in run r; last_checked is new Date()
ProbeSettles(r, p, healthy) ==
    /\ probes[r].state = "probing"
    /\ probes[r].results[p] = Null
    /\ probes' = [probes EXCEPT ![r].results[p] = healthCheck(p, healthy, now)]
    /\ UNCHANGED <<healthCache, dbUnreachableLogged, failureRun, upsertLost, healthRun,
                   upserts, warnLog>>
    /\ UNCHANGED <<aggVars, dbVars, scoreVars, weightVars, keyVars, priceVars>>

\* Promise.allSettled of run r resolves: the loop overwrites the health map
\* and calls updateReliabilityMetrics for every connector without awaiting it
RunJoins(r) ==
    /\ probes[r].state = "probing"
    /\ \A p \in ProviderNames : probes[r].results[p] # Null
    /\ probes' = [probes EXCEPT ![r].state = "joined"]
    /\ healthCache' = setHealthCache(healthCache, probes[r].results)
    /\ upserts' = upserts \cup {[run |-> r, health |-> probes[r].results[p]] :
                                   p \in ProviderNames}
    /\ UNCHANGED <<dbUnreachableLogged, failureRun, upsertLost, healthRun, warnLog>>
    /\ UNCHANGED <<aggVars, dbVars, scoreVars, weightVars, keyVars, priceVars>>

\* one upsert settles: the row is written or the catch block logs
UpsertSettles(u) ==
    /\ u \in upserts
    /\ LET p == u.health.provider
           r == updateReliabilityMetrics(providerReliability[p], u.health)
       IN  /\ providerReliability' = [providerReliability EXCEPT ![p] = r.row]
           /\ dbUnreachableLogged' = flagAfter(r.failed, dbUnreachableLogged)
           /\ warnLog' = warnLogAfter(r.failed, dbUnreachableLogged)
           /\ upsertLost' = (upsertLost \/ r.failed)
    /\ upserts' = upserts \ {u}
    /\ UNCHANGED <<healthCache, failureRun, healthRun, probes>>
    /\ UNCHANGED <<aggVars, dbUp, userPreference, scoreVars, weightVars, keyVars, priceVars>>

\* the outcomes of one run: every connector healthy, lifi alone unhealthy
RunOutcomes ==
    {[p \in ProviderNames |-> TRUE], [p \in ProviderNames |-> p # "lifi"]}

\* a run whose probes all settle within the minute
PromptRun(r, outcome) ==
    /\ now \div CronPeriod < MaxPromptRuns
    /\ probes[r].state = "idle"
    /\ \A q \in RunIds : q < r => probes[q].state # "idle"
    /\ now' = now + CronPeriod
    /\ probes' = [probes EXCEPT ![r] =
                     [state |-> "joined",
                      results |-> [p \in ProviderNames |->
                                      healthCheck(p, outcome[p], now + CronPeriod)]]]
    /\ healthCache' = setHealthCache(healthCache,
                          [p \in ProviderNames |->
                              healthCheck(p, outcome[p], now + CronPeriod)])
    /\ upserts' = upserts \cup {[run |-> r,
                                  health |-> healthCheck(p, outcome[p], now + CronPeriod)] :
                                   p \in ProviderNames}
    /\ UNCHANGED <<dbUnreachableLogged, failureRun, upsertLost, healthRun, warnLog>>
    /\ UNCHANGED <<calls, cache, redis, dbVars, scoreVars, weightVars, keyVars, priceVars>>

NextUpsert ==
    \/ \E r \in RunIds, outcome \in RunOutcomes : PromptRun(r, outcome)
    \/ \E u \in upserts : UpsertSettles(u)
    \/ DbDown
    \/ DbUp

SpecUpsert == InitHealth /\ [][NextUpsert]_vars

NextOverlap ==
    \/ \E r \in RunIds : CronFires(r)
    \/ \E r \in RunIds, p \in ProviderNames, healthy \in BOOLEAN : ProbeSettles(r, p, healthy)
    \/ \E r \in RunIds : RunJoins(r)

SpecOverlap == InitHealth /\ [][NextOverlap]_vars

-----------------------------------------------------------------------------
(* calculateRouteScore invoked repeatedly with the same arguments while the
   health monitor runs and the database goes down and up *)

\* what providerReliability.findUnique gives for provider p
metricsRead(p) ==
    IF ~dbUp THEN [kind |-> "unreachable"]
    ELSE IF ~providerReliability[p].exists THEN [kind |-> "none"]
    ELSE [kind |-> "row", success_rate |-> providerReliability[p].success_rate]

ScoringStrategies == {"lowest_cost", "safety_first"}

\* calculateRouteScore(candidates[i], weights of the strategy, candidates)
CalculateRouteScore(i, strategy) ==
    /\ Len(scorings) < MaxScorings
    /\ i \in 1..Len(candidates)
    /\ Len(scorings) > 0 => (i = scorings[1].index /\ strategy = scorings[1].strategy)
    /\ scorings' = Append(scorings,
                    [index |-> i, strategy |-> strategy,
                     read |-> metricsRead(candidates[i].provider),
                     score |-> calculateRouteScore(candidates[i],
                                                   predefinedStrategies(strategy),
                                                   candidates)])
    /\ UNCHANGED <<candidates, ranked, comparison, backups>>
    /\ UNCHANGED <<aggVars, dbVars, weightVars, healthVars, keyVars, priceVars>>

\* candidate sets of one or two routes
ScoringSets == {s \in DistinctSeqs(CandidateMenu) : Len(s) \in 1..2}

\* every connector healthy, every connector unhealthy
ScoringOutcomes == {[p \in ProviderNames |-> b] : b \in BOOLEAN}

InitScoring ==
    /\ IdleAgg
    /\ dbUp \in BOOLEAN
    /\ providerReliability \in ReliabilityTables
    /\ userPreference = [w \in Wallets |-> NoRow]
    /\ candidates \in ScoringSets
    /\ ranked = NotRun
    /\ comparison = NoComparison
    /\ backups = NoBackups
    /\ scorings = <<>>
    /\ IdleWeights
    /\ IdleKeys
    /\ IdlePrices
    /\ IdleHealth

NextScoring ==
    \/ \E i \in 1..MaxCandidates, strategy \in ScoringStrategies :
          CalculateRouteScore(i, strategy)
    \/ \E outcome \in ScoringOutcomes : PerformHealthChecks(outcome)
    \/ DbDown
    \/ DbUp

SpecScoring == InitScoring /\ [][NextScoring]_vars

\* the same from an empty provider_reliability table: every record a scoring
\* reads has been persisted by the health monitor
InitMonitored ==
    /\ InitScoring
    /\ providerReliability = [p \in ProviderNames |-> NoRow]

SpecMonitored == InitMonitored /\ [][NextScoring]_vars

-----------------------------------------------------------------------------
(* ApiKeysService.validateAndUseKey called concurrently on one key *)

\* findUnique resolves and the two tests are made on what it returned
KeyRead(u) ==
    /\ useCalls[u].pc = "idle"
    /\ useCalls' = [useCalls EXCEPT ![u] =
            IF ~apiKey.exists \/ ~apiKey.is_active
            THEN [pc |-> "done", outcome |-> "NotFoundException"]
            ELSE IF apiKey.available_requests <= 0
            THEN [pc |-> "done", outcome |-> "Error"]
            ELSE [pc |-> "checked", outcome |-> "none"]]
    /\ UNCHANGED <<apiKey, apiUsage>>
    /\ UNCHANGED <<aggVars, dbVars, scoreVars, weightVars, healthVars, priceVars>>

\* $transaction([update {increment, decrement}, apiUsage.create]) commits
KeyTransaction(u) ==
    /\ useCalls[u].pc = "checked"
    /\ apiKey' = [apiKey EXCEPT !.total_calls = @ + 1,
                                !.available_requests = @ - 1]
    /\ apiUsage' = apiUsage + 1
    /\ useCalls' = [useCalls EXCEPT ![u] = [pc |-> "done", outcome |-> "accepted"]]
    /\ UNCHANGED <<aggVars, dbVars, scoreVars, weightVars, healthVars, priceVars>>

InitKeys ==
    /\ IdleAgg
    /\ IdleDb
    /\ IdleScore
    /\ IdleWeights
    /\ IdleHealth
    /\ IdlePrices
    /\ apiKey \in KeyRows \cup {NoKey}
    /\ apiUsage = 0
    /\ useCalls = [u \in UseIds |-> NoUse]

NextKeys ==
    \/ \E u \in UseIds : KeyRead(u)
    \/ \E u \in UseIds : KeyTransaction(u)

SpecKeys == InitKeys /\ [][NextKeys]_vars

-----------------------------------------------------------------------------
(* TokensController.getPrices called with differing id sets *)

allCached(ids) ==
    /\ \A id \in ids : priceCache.prices[id] # Undefined
    /\ now - priceCache.timestamp < PriceCacheTtl

\* what the handler returns for ids from the cache as it is; an id without
\* a cached price reads as 0
cachedResult(ids) ==
    [id \in CoinIds |->
        IF id \notin ids THEN Undefined
        ELSE IF priceCache.prices[id] = Undefined THEN [usd |-> 0, at |-> now]
        ELSE priceCache.prices[id]]

\* getFallbackPrices
getFallbackPrices(ids) ==
    [id \in CoinIds |-> IF id \in ids THEN [usd |-> 1, at |-> now] ELSE Undefined]

\* a request arrives: now = Date.now(), the cache check, and either the
\* answer from the cache or the fetch being sent
GetPrices(k, ids) ==
    /\ priceCalls[k].pc = "idle"
    /\ \A j \in PriceCallIds : j < k => priceCalls[j].pc # "idle"
    /\ priceCalls' = [priceCalls EXCEPT ![k] =
            IF allCached(ids)
            THEN [pc |-> "done", ids |-> ids, startedAt |-> now, returnedAt |-> now,
                  fromCache |-> TRUE, result |-> cachedResult(ids)]
            ELSE [pc |-> "fetching", ids |-> ids, startedAt |-> now, returnedAt |-> 0,
                  fromCache |-> FALSE, result |-> [id \in CoinIds |-> Undefined]]]
    /\ UNCHANGED priceCache
    /\ UNCHANGED <<aggVars, dbVars, scoreVars, weightVars, healthVars, keyVars>>

\* CoinGecko answers with a price for each id asked for: the prices are
\* stored and the timestamp becomes the now of this call
FetchResponds(k) ==
    /\ priceCalls[k].pc = "fetching"
    /\ LET fetched == [id \in CoinIds |->
                          IF id \in priceCalls[k].ids THEN [usd |-> 1, at |-> now]
                          ELSE Undefined]
       IN  /\ priceCache' =
                 [prices |-> [id \in CoinIds |->
                                 IF id \in priceCalls[k].ids THEN fetched[id]
                                 ELSE priceCache.prices[id]],
                  timestamp |-> priceCalls[k].startedAt]
           /\ priceCalls' = [priceCalls EXCEPT ![k] =
                 [@ EXCEPT !.pc = "done", !.returnedAt = now, !.result = fetched]]
    /\ UNCHANGED <<aggVars, dbVars, scoreVars, weightVars, healthVars, keyVars>>

\* the fetch fails or answers with an error status: cached prices of any
\* age if the cache holds any price, the fallback prices otherwise
FetchFails(k) ==
    /\ priceCalls[k].pc = "fetching"
    /\ priceCalls' = [priceCalls EXCEPT ![k] =
          [@ EXCEPT !.pc = "done", !.returnedAt = now,
                    !.result = IF \E id \in CoinIds : priceCache.prices[id] # Undefined
                               THEN cachedResult(priceCalls[k].ids)
                               ELSE getFallbackPrices(priceCalls[k].ids)]]
    /\ UNCHANGED priceCache
    /\ UNCHANGED <<aggVars, dbVars, scoreVars, weightVars, healthVars, keyVars>>

\* time passes, up to a step beyond the TTL
PriceTick ==
    /\ now <= PriceCacheTtl
    /\ now' = now + TickStep
    /\ UNCHANGED <<calls, cache, redis, dbVars, scoreVars, weightVars, healthVars, keyVars, priceVars>>

InitPrices ==
    /\ IdleAgg
    /\ IdleDb
    /\ IdleScore
    /\ IdleWeights
    /\ IdleHealth
    /\ IdleKeys
    /\ IdlePrices

NextPrices ==
    \/ \E k \in PriceCallIds, ids \in IdSets : GetPrices(k, ids)
    \/ \E k \in PriceCallIds : FetchResponds(k)
    \/ \E k \in PriceCallIds : FetchFails(k)
    \/ PriceTick

SpecPrices == InitPrices /\ [][NextPrices]_vars

-----------------------------------------------------------------------------
(* One request followed through the fan-out, the join and the response *)

JoinCall == Min(CallIds)

InitJoin ==
    /\ IdleHealth
    /\ InitAgg
    /\ IdleDb
    /\ IdleScore
    /\ IdleWeights
    /\ IdleKeys
    /\ IdlePrices

NextJoin ==
    \/ \E q \in ParamSet : StartCall(JoinCall, q)
    \/ CacheRead(JoinCall)
    \/ \E p \in ProviderNames, rnd \in RandomSuffixes : Responds(JoinCall, p, rnd)
    \/ \E p \in ProviderNames : ProviderFails(JoinCall, p)
    \/ \E p \in ProviderNames : ProviderTimesOut(JoinCall, p)
    \/ \E p \in ProviderNames, rnd \in RandomSuffixes : AnswersLate(JoinCall, p, rnd)
    \/ Join(JoinCall)
    \/ CacheWrite(JoinCall)
    \/ \E strategy \in RequestStrategies : Respond(JoinCall, strategy, NoWallet)
    \/ RedisDown
    \/ RedisUp

SpecJoin == InitJoin /\ [][NextJoin]_vars

\* one request whose amount, or whose quotes, may be decimal strings
RespondsDecimal(c, p, rnd) ==
    /\ calls[c].pc = "fetching"
    /\ \E quote \in AmountMenu(p, calls[c].params.amount.val) :
          ProviderResponds(c, p, quote, rnd)

NextAmounts ==
    \/ \E q \in AmountParamSet : StartCall(JoinCall, q)
    \/ CacheRead(JoinCall)
    \/ \E p \in ProviderNames, rnd \in RandomSuffixes : RespondsDecimal(JoinCall, p, rnd)
    \/ \E p \in ProviderNames : ProviderFails(JoinCall, p)
    \/ Join(JoinCall)
    \/ CacheWrite(JoinCall)
    \/ \E strategy \in RequestStrategies : Respond(JoinCall, strategy, NoWallet)

SpecAmounts == InitJoin /\ [][NextAmounts]_vars

-----------------------------------------------------------------------------
(* One request under fair scheduling: the timer of every dispatch fires unless
   the dispatch settles first, a settled allSettled resumes the call, and a
   cache command that settles resumes it too *)

NextTimeout ==
    \/ \E q \in CacheParamSet : StartCall(JoinCall, q)
    \/ CacheRead(JoinCall)
    \/ \E p \in ProviderNames : Responds(JoinCall, p, Min(RandomSuffixes))
    \/ \E p \in ProviderNames : ProviderFails(JoinCall, p)
    \/ \E p \in ProviderNames : ProviderTimesOut(JoinCall, p)
    \/ Join(JoinCall)
    \/ CacheWrite(JoinCall)
    \/ RedisDown
    \/ RedisUp

FairTimers ==
    /\ WF_vars(CacheRead(JoinCall))
    /\ \A p \in ProviderNames : WF_vars(ProviderTimesOut(JoinCall, p))
    /\ WF_vars(Join(JoinCall))
    /\ WF_vars(CacheWrite(JoinCall))

SpecTimeout == InitJoin /\ [][NextTimeout]_vars /\ FairTimers

\* one request whose connectors answer at different times
NextArrival ==
    \/ \E q \in CacheParamSet : StartCall(JoinCall, q)
    \/ CacheRead(JoinCall)
    \/ \E p \in ProviderNames : Responds(JoinCall, p, Min(RandomSuffixes))
    \/ \E p \in ProviderNames : ProviderFails(JoinCall, p)
    \/ \E p \in ProviderNames : ProviderTimesOut(JoinCall, p)
    \/ Join(JoinCall)
    \/ CacheWrite(JoinCall)
    \/ Tick

SpecArrival == InitJoin /\ [][NextArrival]_vars

\* the same request with a Redis server that may stop answering
NextHang ==
    \/ NextTimeout
    \/ RedisHangs

SpecHang == InitJoin /\ [][NextHang]_vars /\ FairTimers

-----------------------------------------------------------------------------
(* Several requests sharing the cache; the fan-out and join of one request
   touch nothing but that request's own slots and are taken in one step *)

\* what the providers do in one fan-out: every one fails; all answer
\* (changenow too slowly to pass validation)
FetchScenarios ==
    {[lifi |-> 0, mayan |-> 0, changenow |-> 0],
     [lifi |-> 1, mayan |-> 1, changenow |-> 2]}

\* the n-th answer of the menu, in the order of its amounts and times
MenuItem(p, a, n) ==
    CASE p = "lifi" /\ n = 1 -> [out |-> DecStr(a), secs |-> 300, gas |-> 100]
      [] p = "lifi" /\ n = 2 -> [out |-> DecStr(MaxOutputFactor * a + 1), secs |-> 300, gas |-> 50]
      [] p = "mayan" /\ n = 1 -> [out |-> DecStr(MaxOutputFactor * a), secs |-> MaxEstimatedTime, gas |-> 0]
      [] p = "mayan" /\ n = 2 -> [out |-> DecStr(0), secs |-> 0, gas |-> 0]
      [] p = "changenow" /\ n = 1 -> [out |-> DecStr(a), secs |-> 10, gas |-> 0]
      [] p = "changenow" /\ n = 2 -> [out |-> DecStr(a), secs |-> 1441, gas |-> 0]

FetchAll(c, scenario, rnd) ==
    /\ calls[c].pc = "fetching"
    /\ LET params == calls[c].params
           settled == [p \in ProviderNames |->
               IF calls[c].slots[p].kind # "pending" THEN calls[c].slots[p]
               ELSE IF scenario[p] = 0 THEN Slot("error", Null)
               ELSE Slot("route", normalizeRoute(p, MenuItem(p, params.amount.val, scenario[p]),
                                                 params, now * 1000, rnd))]
           r == processResults(settled, calls[c].startTime)
       IN  IF r.threw
           THEN calls' = [calls EXCEPT ![c] =
                    [@ EXCEPT !.pc = "returned", !.raised = TRUE, !.slots = settled]]
           ELSE calls' = [calls EXCEPT ![c] =
                    [@ EXCEPT !.pc = "cacheWrite", !.result = r, !.slots = settled]]
    /\ UNCHANGED <<cache, now, redis, dbVars, scoreVars, weightVars, healthVars, keyVars, priceVars>>

InitCache ==
    /\ IdleHealth
    /\ InitAgg
    /\ IdleDb
    /\ IdleScore
    /\ IdleWeights
    /\ IdleKeys
    /\ IdlePrices

NextCache ==
    \/ \E c \in CallIds, q \in CacheParamSet : StartCall(c, q)
    \/ \E c \in CallIds : CacheRead(c)
    \/ \E c \in CallIds, scenario \in FetchScenarios, rnd \in RandomSuffixes :
          FetchAll(c, scenario, rnd)
    \/ \E c \in CallIds : CacheWrite(c)
    \/ Tick

SpecCache == InitCache /\ [][NextCache]_vars

\* the same, for requests that agree on the five key fields and differ in
\* slippage_tolerance and user_wallet; a pair of requests is followed
KeyCalls == {c \in CallIds : c <= 2}

NextKey ==
    \/ \E c \in KeyCalls, q \in KeyParamSet : StartCall(c, q)
    \/ \E c \in KeyCalls : CacheRead(c)
    \/ \E c \in KeyCalls, scenario \in FetchScenarios, rnd \in RandomSuffixes :
          FetchAll(c, scenario, rnd)
    \/ \E c \in KeyCalls : CacheWrite(c)
    \/ Tick

SpecKey == InitCache /\ [][NextKey]_vars

-----------------------------------------------------------------------------
(* Properties of the aggregation (SpecJoin) *)

\* C1: on a cache miss the routes aggregateQuotes returns are exactly the
\* routes delivered by the connectors that answered and that pass
\* validateRoute, each once, whatever happened to the other connectors.
C1_PartialFailureIsolation ==
    \A c \in CallIds :
        (calls[c].pc \in {"returned", "responded"} /\ ~calls[c].hit) =>
            LET answered == {p \in ProviderNames : calls[c].slots[p].kind = "route"}
                valid == {r \in {calls[c].slots[p].value : p \in answered} :
                             validateRoute(r)}
                routes == calls[c].result.routes
            IN  /\ {routes[i] : i \in 1..Len(routes)} = valid
                /\ Len(routes) = Cardinality(valid)

\* one connector answers, one rejects, one times out, and the answer is returned
C1_Witness ==
    \E c \in CallIds :
        /\ calls[c].pc = "returned"
        /\ ~calls[c].hit
        /\ calls[c].slots["lifi"].kind = "error"
        /\ calls[c].slots["mayan"].kind = "route"
        /\ validateRoute(calls[c].slots["mayan"].value)
        /\ calls[c].slots["changenow"].kind = "timeout"
        /\ calls[c].result.routes = <<calls[c].slots["mayan"].value>>

\* C2 (as stated): provider_statuses of a cache miss has one entry per
\* connector, 'success' for a connector that delivered a route and 'failed'
\* for one that raised, timed out or does not support the route.
C2_OneStatusPerConnector ==
    \A c \in CallIds :
        (calls[c].pc \in {"returned", "responded"} /\ ~calls[c].hit /\ ~calls[c].raised) =>
            LET statuses == calls[c].result.provider_statuses
            IN  /\ DOMAIN statuses = ProviderNames
                /\ \A p \in ProviderNames :
                      statuses[p] = IF calls[c].slots[p].kind = "route"
                                    THEN "success" ELSE "failed"

\* C3: aggregateQuotes never raises, whatever the connectors and the cache do;
\* when every connector fails it returns an empty list with total_routes = 0,
\* and the endpoint answers an empty list with an empty recommended_route_id.
C3_NeverRaises ==
    \A c \in CallIds :
        /\ ~calls[c].raised
        /\ (/\ calls[c].pc \in {"returned", "responded"}
            /\ ~calls[c].hit
            /\ \A p \in ProviderNames : calls[c].slots[p].kind # "route") =>
               /\ calls[c].result.routes = <<>>
               /\ calls[c].result.total_routes = 0
        /\ (calls[c].pc = "responded" /\ calls[c].result.routes = <<>>) =>
               /\ calls[c].response.status = "ok"
               /\ calls[c].response.routes = <<>>
               /\ calls[c].response.total_routes = 0
               /\ calls[c].response.recommended_route_id = EmptyId

\* every connector failed, in different ways, and the endpoint has answered
C3_Witness ==
    \E c \in CallIds :
        /\ calls[c].pc = "responded"
        /\ calls[c].slots["lifi"].kind = "error"
        /\ calls[c].slots["mayan"].kind = "timeout"
        /\ calls[c].slots["changenow"].kind \in {"error", "timeout", "unsupported"}
        /\ calls[c].response.status = "ok"
        /\ calls[c].response.recommended_route_id = EmptyId

\* C4: every returned route has an output amount above zero and at most
\* twice its input amount and an estimated_time of at most 86400 s; a
\* delivered route that breaks one of the three is left out although its
\* connector is reported as successful.
C4_ReturnedRoutesAreSane ==
    \A c \in CallIds :
        (calls[c].pc \in {"returned", "responded"} /\ ~calls[c].raised) =>
            LET routes == calls[c].result.routes
                Sane(r) == /\ r.output_amount.isInt /\ r.input_amount.isInt
                           /\ r.output_amount.val > 0
                           /\ r.output_amount.val <= 2 * r.input_amount.val
                           /\ r.estimated_time <= 86400
            IN  /\ \A i \in 1..Len(routes) : Sane(routes[i])
                /\ \A p \in ProviderNames :
                      (calls[c].slots[p].kind = "route" /\ ~Sane(calls[c].slots[p].value)) =>
                          /\ \A i \in 1..Len(routes) : routes[i] # calls[c].slots[p].value
                          /\ calls[c].result.provider_statuses[p] = "success"

\* an output above twice the input and an estimated_time above a day are
\* dropped while a route at both limits is returned
C4_Witness ==
    \E c \in CallIds :
        /\ calls[c].pc = "returned"
        /\ calls[c].slots["lifi"].kind = "route"
        /\ calls[c].slots["lifi"].value.output_amount.val >
              2 * calls[c].slots["lifi"].value.input_amount.val
        /\ calls[c].slots["mayan"].kind = "route"
        /\ calls[c].slots["mayan"].value.output_amount.val =
              2 * calls[c].slots["mayan"].value.input_amount.val
        /\ calls[c].slots["mayan"].value.estimated_time = 86400
        /\ calls[c].slots["changenow"].kind = "route"
        /\ calls[c].slots["changenow"].value.output_amount.isInt
        /\ calls[c].slots["changenow"].value.estimated_time > 86400
        /\ calls[c].result.routes = <<calls[c].slots["mayan"].value>>

\* C11: a connector whose timeout fired first contributes no route to the
\* result of that call and is not reported as successful, the result being
\* the one the call would have had if the connector had raised; what it
\* delivers afterwards is in neither the returned routes nor any cache entry,
\* and getQuote was invoked once for it.
C11_LateResultDiscarded ==
    \A c \in CallIds : \A p \in ProviderNames :
        (calls[c].slots[p].kind = "timeout" \/ calls[c].late[p] # Null) =>
            /\ calls[c].asked[p] = 1
            /\ (calls[c].pc \in {"cacheWrite", "returned", "responded"}) =>
                  /\ \A i \in 1..Len(calls[c].result.routes) :
                        calls[c].result.routes[i].provider # p
                  /\ ~(p \in DOMAIN calls[c].result.provider_statuses /\
                       calls[c].result.provider_statuses[p] = "success")
                  /\ calls[c].slots[p].kind = "timeout" =>
                        LET raised == processResults(
                                [calls[c].slots EXCEPT ![p] = Slot("error", Null)],
                                calls[c].startTime)
                        IN  /\ calls[c].result.routes = raised.routes
                            /\ calls[c].result.provider_statuses = raised.provider_statuses
            /\ calls[c].late[p] # Null =>
                  /\ \A i \in 1..Len(calls[c].result.routes) :
                        calls[c].result.routes[i] # calls[c].late[p]
                  /\ \A k \in CacheKeys : cache[k].present =>
                        \A i \in 1..Len(JSONparse(cache[k].value).routes) :
                            JSONparse(cache[k].value).routes[i] # calls[c].late[p]

\* lifi answers after its timeout with a route that would have passed
\* validation, while the join is still waiting for changenow; the call
\* returns mayan's route alone and stores it
C11_Witness ==
    \E c \in CallIds :
        /\ calls[c].pc = "returned"
        /\ calls[c].wrote
        /\ calls[c].slots["lifi"].kind = "timeout"
        /\ calls[c].late["lifi"] # Null
        /\ validateRoute(calls[c].late["lifi"])
        /\ calls[c].slots["mayan"].kind = "route"
        /\ calls[c].result.routes = <<calls[c].slots["mayan"].value>>
        /\ cache[buildCacheKey(calls[c].params)].present

\* C12: a call that finds the cache store unreachable at its read and at its
\* write (no client, or the commands fail) is a miss, asks every connector
\* that supports the route once, returns what the connectors' answers give,
\* stores nothing and raises nothing, and the endpoint answers normally.
C12_CacheOutageIsSilent ==
    \A c \in CallIds :
        (calls[c].pc \in {"returned", "responded"} /\ ~calls[c].readUp /\ ~calls[c].wrote) =>
            /\ ~calls[c].raised
            /\ ~calls[c].hit
            /\ \A p \in ProviderNames :
                  calls[c].asked[p] =
                      IF supportsRoute(p, calls[c].params.source_chain,
                                       calls[c].params.destination_chain)
                      THEN 1 ELSE 0
            /\ calls[c].result.routes =
                  processResults(calls[c].slots, calls[c].startTime).routes
            /\ calls[c].result.total_routes = Len(calls[c].result.routes)
            /\ ~cache[buildCacheKey(calls[c].params)].present
            /\ calls[c].pc = "responded" => calls[c].response.status = "ok"

\* the connection is down, a connector delivers a valid route and the
\* endpoint answers with it
C12_Witness ==
    \E c \in CallIds :
        /\ calls[c].pc = "responded"
        /\ redis = "down"
        /\ ~calls[c].readUp
        /\ ~calls[c].wrote
        /\ Len(calls[c].result.routes) >= 1
        /\ calls[c].response.status = "ok"
        /\ Len(calls[c].response.routes) = Len(calls[c].result.routes)

\* C13 (as stated): a connector whose route validateRoute rejects is not
\* reported as 'success' in provider_statuses of that result.
C13_RejectedNotSuccess ==
    \A c \in CallIds :
        (calls[c].pc \in {"returned", "responded"} /\ ~calls[c].hit /\ ~calls[c].raised) =>
            \A p \in ProviderNames :
                (calls[c].slots[p].kind = "route" /\ ~validateRoute(calls[c].slots[p].value)) =>
                    ~(p \in DOMAIN calls[c].result.provider_statuses /\
                      calls[c].result.provider_statuses[p] = "success")

\* C14: the routes returned on a cache miss are in order of output_amount
\* descending, the amounts compared as integers: of two adjacent routes the
\* earlier has an output_amount at least as large as the later.
C14_SortedByOutputAmount ==
    \A c \in CallIds :
        (calls[c].pc \in {"returned", "responded"} /\ ~calls[c].hit /\ ~calls[c].raised) =>
            LET routes == calls[c].result.routes
            IN  \A i \in 1..(Len(routes) - 1) :
                    /\ routes[i].output_amount.isInt
                    /\ routes[i + 1].output_amount.isInt
                    /\ routes[i].output_amount.val >= routes[i + 1].output_amount.val

\* three routes are returned; mayan's, delivered second, has the largest
\* amount and comes first, the two others have equal amounts
C14_Witness ==
    \E c \in CallIds :
        /\ calls[c].pc = "returned"
        /\ ~calls[c].hit
        /\ Len(calls[c].result.routes) = 3
        /\ calls[c].result.routes[1].provider = "mayan"
        /\ calls[c].result.routes[1].output_amount.val >
              calls[c].result.routes[2].output_amount.val
        /\ calls[c].result.routes[2].output_amount.val =
              calls[c].result.routes[3].output_amount.val

-----------------------------------------------------------------------------
(* Properties of the cache (SpecCache) *)

\* C5: when a call has missed, stored its result and returned, a call with
\* the same parameters that starts afterwards and returns less than 30 s
\* after it, with the cache reachable and no other call storing under the
\* key, is answered from the cache with the identical route list.
C5_CacheHitWithinTtl ==
    \A a, b \in CallIds :
        (/\ a # b
         /\ calls[a].pc = "returned" /\ ~calls[a].hit /\ calls[a].wrote
         /\ calls[b].pc = "returned" /\ a \in calls[b].after /\ calls[b].readUp
         /\ buildCacheKey(calls[b].params) = buildCacheKey(calls[a].params)
         /\ calls[b].returnedAt < calls[a].returnedAt + CacheTtl
         /\ \A x \in CallIds \ {a, b} :
               ~(calls[x].wrote /\
                 buildCacheKey(calls[x].params) = buildCacheKey(calls[a].params))) =>
            /\ calls[b].hit
            /\ calls[b].result.routes = calls[a].result.routes

\* the second call arrives 15 s after the first and gets its two routes
C5_Witness ==
    \E a, b \in CallIds :
        /\ calls[a].pc = "returned" /\ ~calls[a].hit /\ calls[a].wrote
        /\ calls[b].pc = "returned" /\ a \in calls[b].after /\ calls[b].hit
        /\ calls[b].returnedAt > calls[a].returnedAt
        /\ Len(calls[a].result.routes) = 2
        /\ calls[b].result.routes = calls[a].result.routes

-----------------------------------------------------------------------------
(* Properties of scoring and ranking (SpecScore) *)

\* C6: scoreAndRankRoutes returns the input routes, each once, in order of
\* total_score descending, routes of equal total_score in their input order,
\* with rank = position, 1..n.
C6_StableRanking ==
    (ranked.strategy # "none" /\ ~ranked.threw) =>
        LET r == ranked.routes
            n == Len(candidates)
            pos(x) == CHOOSE i \in 1..n : candidates[i] = x
        IN  /\ Len(r) = n
            /\ \A i \in 1..Len(r) : r[i].rank = i
            /\ {r[i].route : i \in 1..Len(r)} = {candidates[i] : i \in 1..n}
            /\ \A i, j \in 1..Len(r) : i < j =>
                  /\ r[i].score.total_score >= r[j].score.total_score
                  /\ (r[i].score.total_score = r[j].score.total_score =>
                         pos(r[i].route) < pos(r[j].route))

\* the first input route is ranked last, behind two routes of equal score
\* that keep their input order
C6_Witness ==
    /\ candidates = <<RouteA, RouteB, RouteC>>
    /\ ranked.strategy = "lowest_cost"
    /\ Len(ranked.routes) = 3
    /\ ranked.routes[1].route = RouteB
    /\ ranked.routes[2].route = RouteC
    /\ ranked.routes[1].score.total_score = ranked.routes[2].score.total_score
    /\ ranked.routes[3].route = RouteA
    /\ ranked.routes[3].rank = 3

\* C8: when all candidate routes have the same total fee (network + bridge +
\* protocol) every one of them gets fee_score 100.
C8_EqualFeesScoreFull ==
    (ranked.strategy # "none" /\ ~ranked.threw) =>
        LET fee(x) == x.total_fee.network_fee.val + x.total_fee.bridge_fee.val +
                      x.total_fee.protocol_fee.val
        IN  (\A i, j \in 1..Len(candidates) : fee(candidates[i]) = fee(candidates[j])) =>
                \A i \in 1..Len(ranked.routes) :
                    ranked.routes[i].score.fee_score = 100 * ScoreUnit

\* two routes whose fees are split differently and add up to the same total
C8_Witness ==
    /\ candidates = <<RouteA, RouteD>>
    /\ ranked.strategy # "none"
    /\ Len(ranked.routes) = 2
    /\ \A i \in 1..2 : ranked.routes[i].score.fee_score = 100 * ScoreUnit

\* C9: under lowest_cost (weights 0.6, 0.1, 0.1, 0.1, 0.1), for route A (fee
\* 100, time 300) and route B (fee 50, time 600), equal otherwise, B gets
\* fee_score 100 and speed_score 0, A gets fee_score 0 and speed_score 100,
\* and B is ranked first.
C9_LowestCostScenario ==
    (/\ ranked.strategy = "lowest_cost" /\ ~ranked.threw
     /\ candidates \in {<<RouteA, RouteB>>, <<RouteB, RouteA>>}) =>
        /\ getStrategyWeights("lowest_cost", NoWallet) = Weights(600, 100, 100, 100, 100)
        /\ Len(ranked.routes) = 2
        /\ ranked.routes[1].route = RouteB
        /\ ranked.routes[1].rank = 1
        /\ ranked.routes[1].score.fee_score = 100 * ScoreUnit
        /\ ranked.routes[1].score.speed_score = 0
        /\ ranked.routes[2].route = RouteA
        /\ ranked.routes[2].score.fee_score = 0
        /\ ranked.routes[2].score.speed_score = 100 * ScoreUnit

\* A is given first and B overtakes it
C9_Witness ==
    /\ candidates = <<RouteA, RouteB>>
    /\ ranked.strategy = "lowest_cost"
    /\ Len(ranked.routes) = 2
    /\ ranked.routes[1].route = RouteB
    /\ ranked.routes[1].score.total_score > ranked.routes[2].score.total_score

C15_ReliabilityOnHundredScale ==
    (ranked.strategy # "none" /\ ~ranked.threw) =>
        \A i \in 1..Len(ranked.routes) :
            LET route == ranked.routes[i].route
                row == providerReliability[route.provider]
            IN  ranked.routes[i].score.reliability_score =
                    IF ranked.dbUp /\ row.exists
                    THEN (row.success_rate * 100 * ScoreUnit) \div WeightUnit
                    ELSE route.reliability_score * 100

\* C16 (as stated): of two candidate routes whose total fees, summed as
\* integers, differ, the one with the smaller total gets the strictly larger
\* fee_score, and the route compareRoutes names as cheapest has the smallest
\* total fee of the set.
C16_FeeArithmeticExact ==
    LET fee(x) == x.total_fee.network_fee.val + x.total_fee.bridge_fee.val +
                  x.total_fee.protocol_fee.val
    IN  /\ (ranked.strategy # "none" /\ ~ranked.threw) =>
              \A i, j \in 1..Len(ranked.routes) :
                  fee(ranked.routes[i].route) < fee(ranked.routes[j].route) =>
                      ranked.routes[i].score.fee_score > ranked.routes[j].score.fee_score
        /\ (comparison.called /\ ~comparison.threw) =>
              \A i \in 1..Len(candidates) :
                  fee(comparison.value.cheapest_route) <= fee(candidates[i])

\* C17 (as stated): when the smallest and the largest total fee of the
\* candidates differ, fee_score is (maxFee - fee) / (maxFee - minFee) x 100,
\* 100 for a route of the smallest fee and 0 for one of the largest;
\* speed_score is the same over estimated_time.
C17_InverseLinearScores ==
    (ranked.strategy # "none" /\ ~ranked.threw /\ Len(candidates) > 0) =>
        LET fee(x) == x.total_fee.network_fee.val + x.total_fee.bridge_fee.val +
                      x.total_fee.protocol_fee.val
            minFee == Min({fee(candidates[i]) : i \in 1..Len(candidates)})
            maxFee == Max({fee(candidates[i]) : i \in 1..Len(candidates)})
            minTime == Min({candidates[i].estimated_time : i \in 1..Len(candidates)})
            maxTime == Max({candidates[i].estimated_time : i \in 1..Len(candidates)})
        IN  /\ minFee # maxFee =>
                  \A i \in 1..Len(ranked.routes) :
                      LET r == ranked.routes[i]
                      IN  /\ r.score.fee_score =
                                Ratio100(maxFee - fee(r.route), maxFee - minFee)
                          /\ fee(r.route) = minFee => r.score.fee_score = 100 * ScoreUnit
                          /\ fee(r.route) = maxFee => r.score.fee_score = 0
            /\ minTime # maxTime =>
                  \A i \in 1..Len(ranked.routes) :
                      LET r == ranked.routes[i]
                      IN  /\ r.score.speed_score =
                                Ratio100(maxTime - r.route.estimated_time, maxTime - minTime)
                          /\ r.route.estimated_time = minTime =>
                                r.score.speed_score = 100 * ScoreUnit
                          /\ r.route.estimated_time = maxTime => r.score.speed_score = 0

\* C18: a candidate set of one route gives that route fee_score 100 and
\* speed_score 100, whatever its fee and its estimated_time.
C18_SingleRouteScoresFull ==
    (ranked.strategy # "none" /\ ~ranked.threw /\ Len(candidates) = 1) =>
        /\ Len(ranked.routes) = 1
        /\ ranked.routes[1].route = candidates[1]
        /\ ranked.routes[1].score.fee_score = 100 * ScoreUnit
        /\ ranked.routes[1].score.speed_score = 100 * ScoreUnit

\* the only candidate has a large fee and is neither the fastest nor the
\* slowest route of the menu
C18_Witness ==
    /\ candidates = <<RouteG>>
    /\ ranked.strategy = "fast_execution"
    /\ Len(ranked.routes) = 1
    /\ ranked.routes[1].score.fee_score = 100 * ScoreUnit
    /\ ranked.routes[1].score.speed_score = 100 * ScoreUnit

\* C19 (as stated): getStrategyWeights('custom', wallet) returns the saved
\* weight set when a wallet is given and user_preferences has one for it;
\* 'custom' in every other case (no wallet, no saved set, database down) and
\* every unknown strategy name return 0.2 for each weight; nothing is raised.
C19_CustomAndUnknownFallBack ==
    (ranked.strategy # "none" /\ Len(candidates) > 0) =>
        LET saved == IF ranked.strategy = "custom" /\ ranked.wallet # NoWallet /\
                        ranked.dbUp /\ userPreference[ranked.wallet].exists
                     THEN userPreference[ranked.wallet].custom_weights ELSE Null
        IN  IF saved # Null THEN ranked.weights = saved
            ELSE (ranked.strategy = "custom" \/ ranked.strategy \notin StrategyTypes) =>
                    ranked.weights = Weights(200, 200, 200, 200, 200)

\* C22 (as stated): for a non-empty candidate set compareRoutes names as
\* cheapest the first route of the smallest total fee, as fastest the first
\* route of the smallest estimated_time, as safest the first route of the
\* largest reliability_score; savings is the largest total fee minus the
\* smallest and the time spread the largest estimated_time minus the
\* smallest, neither negative.
C22_ComparisonSummary ==
    (comparison.called /\ ~comparison.threw /\ Len(candidates) > 0) =>
        LET n == Len(candidates)
            fee(x) == x.total_fee.network_fee.val + x.total_fee.bridge_fee.val +
                      x.total_fee.protocol_fee.val
            minFee == Min({fee(candidates[i]) : i \in 1..n})
            maxFee == Max({fee(candidates[i]) : i \in 1..n})
            minTime == Min({candidates[i].estimated_time : i \in 1..n})
            maxTime == Max({candidates[i].estimated_time : i \in 1..n})
            maxRel == Max({candidates[i].reliability_score : i \in 1..n})
            v == comparison.value
        IN  /\ v.cheapest_route = candidates[Min({i \in 1..n : fee(candidates[i]) = minFee})]
            /\ v.fastest_route =
                  candidates[Min({i \in 1..n : candidates[i].estimated_time = minTime})]
            /\ v.safest_route =
                  candidates[Min({i \in 1..n : candidates[i].reliability_score = maxRel})]
            /\ v.savings_vs_cheapest = maxFee - minFee
            /\ v.time_difference = maxTime - minTime
            /\ v.savings_vs_cheapest >= 0
            /\ v.time_difference >= 0

-----------------------------------------------------------------------------
(* Properties of the recommended and backup routes (SpecBackup) *)

\* C23 (as stated): getRecommendedRoute returns the route of rank 1 and
\* getBackupRoutes(rankedRoutes, k) exactly the routes of ranks 2 through k,
\* in rank order.
C23_BackupsAreRanksTwoToK ==
    backups.called =>
        /\ Len(ranked.routes) > 0 =>
              /\ backups.recommended = ranked.routes[1]
              /\ backups.recommended.rank = 1
        /\ backups.routes =
              SelectSeq(ranked.routes, LAMBDA r : r.rank >= 2 /\ r.rank <= backups.count)

\* C23 (amended): getRecommendedRoute returns the route of rank 1, or null
\* for an empty list, and getBackupRoutes(rankedRoutes, k) the routes of
\* ranks 2 through k + 1, in rank order: k routes, or as many as there are.
C23_BackupsAreNextKRoutes ==
    backups.called =>
        /\ Len(ranked.routes) > 0 =>
              /\ backups.recommended = ranked.routes[1]
              /\ backups.recommended.rank = 1
        /\ Len(ranked.routes) = 0 => backups.recommended = Null
        /\ backups.routes =
              SelectSeq(ranked.routes, LAMBDA r : r.rank >= 2 /\ r.rank <= backups.count + 1)
        /\ Len(backups.routes) = Min({backups.count, Max({Len(ranked.routes) - 1, 0})})

\* with the default count, three ranked routes give the two of ranks 2 and 3
C23_Witness ==
    /\ backups.called
    /\ backups.count = DefaultBackupCount
    /\ Len(ranked.routes) = 3
    /\ backups.recommended = ranked.routes[1]
    /\ backups.routes = <<ranked.routes[2], ranked.routes[3]>>

-----------------------------------------------------------------------------
(* Concurrent requests for one key (SpecCache) *)

\* c has returned from a cache miss with a result built from its own fan-out
OwnCompleteResult(c) ==
    LET answered == {p \in ProviderNames : calls[c].slots[p].kind = "route"}
        valid == {r \in {calls[c].slots[p].value : p \in answered} : validateRoute(r)}
        routes == calls[c].result.routes
    IN  /\ \A p \in ProviderNames :
              supportsRoute(p, calls[c].params.source_chain,
                            calls[c].params.destination_chain) => calls[c].asked[p] = 1
        /\ {routes[i] : i \in 1..Len(routes)} = valid
        /\ calls[c].result.total_routes = Cardinality(valid)

\* c and d miss the cache for the same key while both are in flight
ConcurrentMisses(c, d) ==
    /\ c # d
    /\ calls[c].pc = "returned" /\ calls[d].pc = "returned"
    /\ ~calls[c].hit /\ ~calls[d].hit
    /\ ~calls[c].raised /\ ~calls[d].raised
    /\ buildCacheKey(calls[c].params) = buildCacheKey(calls[d].params)
    /\ c \notin calls[d].after /\ d \notin calls[c].after

\* C29: two concurrent calls that miss the cache for the same key each
\* return their own complete, validated result, and every cache write
\* replaces the entry of its key by the writer's whole result and touches no
\* other entry, so the entry is the result of whichever call wrote last.
C29_LastWriteWins ==
    [][/\ \A c, d \in CallIds :
            ConcurrentMisses(c, d)' => (OwnCompleteResult(c) /\ OwnCompleteResult(d))'
       /\ \A c \in CallIds :
            (calls[c].pc = "cacheWrite" /\ calls'[c].pc = "returned" /\ calls'[c].wrote) =>
                cache' = [cache EXCEPT ![buildCacheKey(calls[c].params)] =
                            [present |-> TRUE,
                             value |-> JSONstringify(calls[c].result),
                             expiresAt |-> now + CacheTtl]]]_vars

\* the two calls returned different results; the one that started first
\* wrote last and the entry is its whole result
C29_Witness ==
    \E c, d \in CallIds :
        /\ c < d
        /\ ConcurrentMisses(c, d)
        /\ calls[c].wrote /\ calls[d].wrote
        /\ calls[c].result.routes # calls[d].result.routes
        /\ Len(calls[c].result.routes) > 0
        /\ cache[buildCacheKey(calls[c].params)].present
        /\ cache[buildCacheKey(calls[c].params)].value = JSONstringify(calls[c].result)

-----------------------------------------------------------------------------
(* Dispatch and cache hits (SpecJoin, SpecCache) *)

\* C31: once a call has missed the cache, getQuote has been invoked once on
\* every connector that supports both chains of the request and never on a
\* connector that does not; such a connector delivers no route, in time or
\* late.
C31_UnsupportedNeverQueried ==
    \A c \in CallIds :
        (calls[c].pc \in {"fetching", "cacheWrite", "returned", "responded"}
            /\ ~calls[c].hit) =>
            \A p \in ProviderNames :
                IF /\ calls[c].params.source_chain \in supportedChains(p)
                   /\ calls[c].params.destination_chain \in supportedChains(p)
                THEN calls[c].asked[p] = 1
                ELSE /\ calls[c].asked[p] = 0
                     /\ calls[c].slots[p].kind = "unsupported"
                     /\ calls[c].late[p] = Null

\* a request to optimism has returned lifi's route; mayan and changenow do
\* not serve optimism and were not asked
C31_Witness ==
    \E c \in CallIds :
        /\ calls[c].pc = "returned"
        /\ ~calls[c].hit
        /\ calls[c].params.destination_chain = "optimism"
        /\ calls[c].asked = [p \in ProviderNames |-> IF p = "lifi" THEN 1 ELSE 0]
        /\ calls[c].slots["lifi"].kind = "route"
        /\ calls[c].slots["mayan"].kind = "unsupported"
        /\ calls[c].result.total_routes = 1

\* C32: a cache hit invokes no connector and writes nothing to the cache
\* (the entry keeps its expiry); the call returns the cached routes,
\* provider_statuses and total_routes, with response_time_ms measured from
\* its own start.
C32_CacheHitIsReadOnly ==
    [][\A c \in CallIds :
         (calls[c].pc = "cacheRead" /\ calls'[c].pc = "returned" /\ calls'[c].hit) =>
            LET cached == JSONparse(cache[buildCacheKey(calls[c].params)].value)
            IN  /\ cache' = cache
                /\ calls'[c].asked = [p \in ProviderNames |-> 0]
                /\ calls'[c].slots = [p \in ProviderNames |-> Slot("none", Null)]
                /\ ~calls'[c].wrote
                /\ calls'[c].result.routes = cached.routes
                /\ calls'[c].result.provider_statuses = cached.provider_statuses
                /\ calls'[c].result.total_routes = cached.total_routes
                /\ calls'[c].result.response_time_ms = (now - calls[c].startTime) * 1000]_vars

\* the entry was fetched by a call that took 15 s; a later call hits it at
\* once and reports 0 ms with the same routes
C32_Witness ==
    \E c, d \in CallIds :
        /\ calls[c].pc = "returned" /\ ~calls[c].hit /\ calls[c].wrote
        /\ calls[d].pc = "returned" /\ calls[d].hit
        /\ calls[d].params = calls[c].params
        /\ calls[c].result.response_time_ms > 0
        /\ calls[d].result.response_time_ms = 0
        /\ calls[d].result.routes = calls[c].result.routes
        /\ Len(calls[d].result.routes) > 0
        /\ cache[buildCacheKey(calls[d].params)].expiresAt = calls[c].returnedAt + CacheTtl

\* C34: a result without routes is written to the cache like any other, and
\* a request for the same key while the entry is alive is answered from it
\* with zero routes, no connector being asked.
C34_EmptyResultIsCached ==
    [][\A c \in CallIds :
         /\ (calls[c].pc = "cacheWrite" /\ calls'[c].pc = "returned"
                /\ calls[c].result.total_routes = 0 /\ redis = "up") =>
               cache'[buildCacheKey(calls[c].params)] =
                   [present |-> TRUE, value |-> JSONstringify(calls[c].result),
                    expiresAt |-> now + CacheTtl]
         /\ (calls[c].pc = "cacheRead" /\ calls'[c].pc # "cacheRead" /\ redis = "up"
                /\ Live(cache[buildCacheKey(calls[c].params)])
                /\ JSONparse(cache[buildCacheKey(calls[c].params)].value).total_routes = 0) =>
               /\ calls'[c].pc = "returned"
               /\ calls'[c].hit
               /\ calls'[c].result.routes = <<>>
               /\ calls'[c].result.total_routes = 0
               /\ calls'[c].asked = [p \in ProviderNames |-> 0]]_vars

\* every connector failed for the first call; the second, 15 s later, is
\* answered from the cache with zero routes
C34_Witness ==
    \E c, d \in CallIds :
        /\ calls[c].pc = "returned" /\ ~calls[c].hit /\ calls[c].wrote
        /\ calls[c].result.total_routes = 0
        /\ \A p \in ProviderNames : calls[c].slots[p].kind = "error"
        /\ calls[d].pc = "returned" /\ calls[d].hit
        /\ calls[d].params = calls[c].params
        /\ calls[d].startTime = calls[c].returnedAt + TickStep
        /\ calls[d].result.total_routes = 0
        /\ calls[d].asked = [p \in ProviderNames |-> 0]

-----------------------------------------------------------------------------
(* Requests that differ outside the cache key (SpecKey) *)

\* the five fields of a request that the spec names as the key
KeyFields(params) ==
    <<params.source_chain, params.destination_chain, params.source_token,
      params.destination_token, params.amount>>

\* calls whose cache write is still alive for a request with these fields
LiveWriters(params) ==
    {d \in CallIds : /\ calls[d].pc = "returned" /\ calls[d].wrote
                     /\ KeyFields(calls[d].params) = KeyFields(params)
                     /\ now < calls[d].returnedAt + CacheTtl}

\* C35: the cache key depends on source_chain, destination_chain,
\* source_token, destination_token and amount only: a request that agrees on
\* these five with one whose result is still cached is answered from that
\* entry, whatever its slippage_tolerance and user_wallet, and so receives the
\* routes fetched for the writer's slippage tolerance and wallet.
C35_KeyIgnoresSlippageAndWallet ==
    [][\A c \in CallIds :
         (calls[c].pc = "cacheRead" /\ calls'[c].pc # "cacheRead"
             /\ LiveWriters(calls[c].params) # {}) =>
            /\ calls'[c].pc = "returned"
            /\ calls'[c].hit
            /\ \E d \in LiveWriters(calls[c].params) :
                  /\ calls'[c].result.routes = calls[d].result.routes
                  /\ \A i \in 1..Len(calls'[c].result.routes) :
                        LET r == calls'[c].result.routes[i]
                        IN  /\ r.slippage_tolerance = slippageTolerance(calls[d].params)
                            /\ r.provider = "lifi" =>
                                  r.raw_provider_data.fromAddress =
                                      fromAddress(calls[d].params)]_vars

\* a request with wallet w1 and 3 % slippage is answered from the entry of a
\* request without either: its routes carry 1 % and the zero address
C35_Witness ==
    \E c, d \in CallIds :
        /\ calls[d].pc = "returned" /\ calls[d].wrote /\ ~calls[d].hit
        /\ calls[d].params.slippage_tolerance = Undefined
        /\ calls[d].params.user_wallet = Undefined
        /\ calls[c].pc = "returned" /\ calls[c].hit
        /\ calls[c].params.slippage_tolerance # Undefined
        /\ calls[c].params.user_wallet # Undefined
        /\ slippageTolerance(calls[c].params) = 3
        /\ calls[c].result.routes = calls[d].result.routes
        /\ Len(calls[c].result.routes) > 0
        /\ \A i \in 1..Len(calls[c].result.routes) :
              /\ calls[c].result.routes[i].slippage_tolerance = 1
              /\ calls[c].result.routes[i].provider = "lifi" =>
                    calls[c].result.routes[i].raw_provider_data.fromAddress
                        # fromAddress(calls[c].params)
        /\ \E i \in 1..Len(calls[c].result.routes) :
              calls[c].result.routes[i].provider = "lifi"

-----------------------------------------------------------------------------
(* Amounts that are not integer strings (SpecAmounts) *)

\* twice the number a decimal string spells
Halves(s) == 2 * s.val + (IF s.isInt THEN 0 ELSE 1)

\* the three sanity bounds, taken on the numbers the amounts spell
MeetsBounds(r) ==
    /\ Halves(r.output_amount) > 0
    /\ Halves(r.output_amount) <= 2 * Halves(r.input_amount)
    /\ r.estimated_time <= 86400

\* C38: every route aggregateQuotes returns on a cache miss has an
\* input_amount and an output_amount that parse as integers; a delivered
\* route is returned exactly when it meets the three sanity bounds and both
\* amounts are integer strings, and a route with a decimal amount is dropped
\* without the call failing.
C38_ReturnedAmountsAreIntegers ==
    \A c \in CallIds :
        /\ ~calls[c].raised
        /\ (calls[c].pc \in {"cacheWrite", "returned", "responded"} /\ ~calls[c].hit) =>
              LET routes == calls[c].result.routes
              IN  /\ \A i \in 1..Len(routes) :
                        routes[i].input_amount.isInt /\ routes[i].output_amount.isInt
                  /\ \A p \in ProviderNames : calls[c].slots[p].kind = "route" =>
                        LET r == calls[c].slots[p].value
                        IN  (\E i \in 1..Len(routes) : routes[i] = r) <=>
                               (MeetsBounds(r) /\ r.input_amount.isInt
                                               /\ r.output_amount.isInt)
                  /\ calls[c].result.total_routes = Len(routes)

\* ChangeNOW quotes "1.5" for the amount 1 in ten minutes and Mayan does the
\* same: both meet the bounds and are left out, LI.FI's route is returned
C38_Witness ==
    \E c \in CallIds :
        /\ calls[c].pc = "returned" /\ ~calls[c].hit /\ ~calls[c].raised
        /\ calls[c].params.amount = DecStr(1)
        /\ calls[c].slots["changenow"].kind = "route"
        /\ calls[c].slots["changenow"].value.output_amount = FracStr(1)
        /\ MeetsBounds(calls[c].slots["changenow"].value)
        /\ calls[c].slots["mayan"].kind = "route"
        /\ MeetsBounds(calls[c].slots["mayan"].value)
        /\ calls[c].slots["lifi"].kind = "route"
        /\ calls[c].result.routes = <<calls[c].slots["lifi"].value>>
        /\ calls[c].result.total_routes = 1

-----------------------------------------------------------------------------
(* Properties of the API key quota (SpecKeys) *)

\* C39 (as stated): for every interleaving of concurrent validateAndUseKey
\* calls on one key, available_requests never becomes negative, and each
\* accepted call takes 1 from available_requests and adds 1 to total_calls.
C39_QuotaNeverOverdrawn ==
    /\ apiKey.available_requests >= 0
    /\ apiKey.exists =>
          apiKey.available_requests + apiKey.total_calls = DefaultRequests
    /\ apiUsage = Cardinality({u \in UseIds : useCalls[u].outcome = "accepted"})

-----------------------------------------------------------------------------
(* Properties of the price cache (SpecPrices) *)

\* C40 (as stated): a price getPrices returns from the cache without
\* refetching was fetched at most PRICE_CACHE_TTL before the call.
C40_CachedPriceIsFresh ==
    \A k \in PriceCallIds :
        (priceCalls[k].pc = "done" /\ priceCalls[k].fromCache) =>
            \A id \in priceCalls[k].ids :
                priceCalls[k].returnedAt - priceCalls[k].result[id].at <= PriceCacheTtl

-----------------------------------------------------------------------------
(* Order of arrival (SpecArrival) *)

\* the route without the time of its normalization
Untimed(route) == [route EXCEPT !.route_id = [@ EXCEPT !.ts = 0]]

\* the settled fan-out as if every answer had arrived at the same instant
UntimedSlots(slots) ==
    [p \in ProviderNames |->
        IF slots[p].kind = "route" THEN Slot("route", Untimed(slots[p].value))
        ELSE slots[p]]

\* C30: the routes, their order and provider_statuses of a call are those
\* its connectors' outcomes give when the times of arrival are left out:
\* the order in which the answers arrived has no influence.
C30_ArrivalOrderIrrelevant ==
    \A c \in CallIds :
        (calls[c].pc = "returned" /\ ~calls[c].hit /\ ~calls[c].raised) =>
            /\ [i \in 1..Len(calls[c].result.routes) |->
                    Untimed(calls[c].result.routes[i])]
                 = processResults(UntimedSlots(calls[c].slots), calls[c].startTime).routes
            /\ calls[c].result.provider_statuses
                 = processResults(UntimedSlots(calls[c].slots),
                                  calls[c].startTime).provider_statuses

\* changenow answered before lifi with the same amount, and lifi's route
\* still comes first
C30_Witness ==
    \E c \in CallIds :
        /\ calls[c].pc = "returned"
        /\ ~calls[c].hit
        /\ calls[c].slots["lifi"].kind = "route"
        /\ calls[c].slots["changenow"].kind = "route"
        /\ calls[c].slots["changenow"].value.route_id.ts
              < calls[c].slots["lifi"].value.route_id.ts
        /\ calls[c].slots["changenow"].value.output_amount
              = calls[c].slots["lifi"].value.output_amount
        /\ calls[c].result.routes
              = <<calls[c].slots["lifi"].value, calls[c].slots["changenow"].value>>

-----------------------------------------------------------------------------
(* Termination of aggregateQuotes (SpecTimeout, SpecHang) *)

InFlight(c) == calls[c].pc \in {"cacheRead", "fetching", "cacheWrite"}

\* C27: every aggregateQuotes call eventually returns, even when connectors
\* never respond: the timeout settles every dispatch, so the join completes.
C27_EveryCallReturns ==
    InFlight(JoinCall) ~> (calls[JoinCall].pc = "returned")

\* the call has returned although no connector ever answered: every
\* dispatch ended in its timeout
C27_Witness ==
    /\ calls[JoinCall].pc = "returned"
    /\ ~calls[JoinCall].hit
    /\ \A p \in ProviderNames :
          /\ calls[JoinCall].slots[p].kind = "timeout"
          /\ calls[JoinCall].late[p] = Null
    /\ calls[JoinCall].result.total_routes = 0

\* C28 (as stated): a cache read or cache write that never completes does
\* not block aggregateQuotes: the call still returns.
C28_HungCacheDoesNotBlock ==
    (calls[JoinCall].pc \in {"cacheRead", "cacheWrite"})
        ~> (calls[JoinCall].pc = "returned")

-----------------------------------------------------------------------------
(* Identity of normalized routes (SpecCache) *)

\* the routes normalized so far: one per call and provider whose getQuote
\* answered, in time or after its timeout
NormalizedBy(c, p) ==
    IF calls[c].slots[p].kind = "route" THEN {calls[c].slots[p].value}
    ELSE IF calls[c].late[p] # Null THEN {calls[c].late[p]}
    ELSE {}

\* C25 (as stated): any two routes produced by normalization within one
\* process run have different route_id values, including two routes of the
\* same connector normalized within the same millisecond.
C25_RouteIdsDistinct ==
    \A c1, c2 \in CallIds : \A p1, p2 \in ProviderNames :
        \A r1 \in NormalizedBy(c1, p1) : \A r2 \in NormalizedBy(c2, p2) :
            <<c1, p1>> # <<c2, p2>> => r1.route_id # r2.route_id

-----------------------------------------------------------------------------
(* Properties of repeated scoring (SpecScoring) *)

\* C24 (as stated): two invocations of calculateRouteScore with equal
\* arguments return equal RouteScores, whatever the metrics store holds,
\* whether it can be reached, and whatever health checks ran in between.
C24_ScoreIsPure ==
    \A a, b \in 1..Len(scorings) : scorings[a].score = scorings[b].score

\* C24 (amended): two invocations with equal arguments return equal
\* fee, speed, slippage and liquidity scores; they return equal RouteScores
\* when both read the same success rate from the metrics store or both read
\* none (no row, or the store unreachable).
C24_ScoreDependsOnMetricsRead ==
    \A a, b \in 1..Len(scorings) :
        LET rate(x) == IF x.read.kind = "row" THEN x.read.success_rate ELSE -1
        IN  /\ scorings[a].score.fee_score = scorings[b].score.fee_score
            /\ scorings[a].score.speed_score = scorings[b].score.speed_score
            /\ scorings[a].score.slippage_score = scorings[b].score.slippage_score
            /\ scorings[a].score.liquidity_score = scorings[b].score.liquidity_score
            /\ rate(scorings[a]) = rate(scorings[b]) => scorings[a].score = scorings[b].score

\* a health check between the two invocations creates the row of the
\* route's provider: the reliability score falls from the declared value to
\* the stored rate, and the total score with it
C24_Witness ==
    /\ Len(scorings) = 2
    /\ scorings[1].read.kind = "none"
    /\ scorings[2].read.kind = "row"
    /\ healthRun.ran
    /\ scorings[1].score.reliability_score = candidates[scorings[1].index].reliability_score
    /\ scorings[2].score.reliability_score = 0
    /\ scorings[1].score.fee_score = scorings[2].score.fee_score
    /\ scorings[1].score.total_score > scorings[2].score.total_score

-----------------------------------------------------------------------------
(* Properties of scoring after the monitor's writes (SpecMonitored) *)

\* the scoring this step appends, if any
Scored(before, after) == Len(after) = Len(before) + 1

\* C36 (as stated): once the monitor has persisted a record for a provider,
\* the reliability sub-score of that provider's routes is the stored
\* success_rate x 100, which is 0 after any sequence of health checks.
C36_ScoreIsZeroOncePersisted ==
    [][Scored(scorings, scorings') =>
          LET s == scorings'[Len(scorings')]
          IN  providerReliability[candidates[s.index].provider].exists =>
                 s.score.reliability_score = 0]_vars

\* C36 (amended): every record the monitor persists keeps success_rate 0
\* through any sequence of health checks; a scoring that reads the record
\* gives its provider's route the reliability sub-score 0, and a scoring that
\* cannot reach the store, or finds no record, gives the declared value.
C36_ZeroWhenRecordIsRead ==
    [][/\ \A p \in ProviderNames :
             providerReliability'[p].exists => providerReliability'[p].success_rate = 0
       /\ Scored(scorings, scorings') =>
             LET s == scorings'[Len(scorings')]
                 route == candidates[s.index]
             IN  IF dbUp /\ providerReliability[route.provider].exists
                 THEN s.score.reliability_score = 0
                 ELSE s.score.reliability_score = route.reliability_score]_vars

\* after a healthy and an unhealthy run the record of the scored route's
\* provider is read and the route, declared at 0.95 or so, scores 0
C36_Witness ==
    /\ Len(scorings) = 2
    /\ healthRun.ran
    /\ scorings[1].read.kind = "row"
    /\ scorings[2].read.kind = "row"
    /\ providerReliability[candidates[scorings[2].index].provider].consecutive_failures > 0
    /\ candidates[scorings[2].index].reliability_score > 0
    /\ scorings[1].score.reliability_score = 0
    /\ scorings[2].score.reliability_score = 0

-----------------------------------------------------------------------------
(* Properties of weight validation (SpecWeights) *)

\* C7 (as stated): validateWeights accepts a weight set exactly when its sum
\* is within 0.01 of 1.0 and every weight is in [0, 1].
C7_AcceptsExactlyWithinTolerance ==
    (verdict # "none") =>
        LET w == weightsIn
            values == {w.fee_weight, w.speed_weight, w.reliability_weight,
                       w.slippage_weight, w.liquidity_weight}
            sum == w.fee_weight + w.speed_weight + w.reliability_weight +
                   w.slippage_weight + w.liquidity_weight
        IN  (verdict = "accepted") <=>
                /\ sum >= 990
                /\ sum <= 1010
                /\ \A v \in values : v >= 0 /\ v <= 1000

-----------------------------------------------------------------------------
(* Properties of saved strategies (SpecSave) *)

RECURSIVE SumOver(_, _)
SumOver(w, names) ==
    IF names = {} THEN 0
    ELSE LET k == CHOOSE x \in names : TRUE
         IN  w[k] + SumOver(w, names \ {k})

\* the weights of w sum to within 0.01 of 1.0 and each is in [0, 1]
SumsToOne(w) ==
    /\ SumOver(w, DOMAIN w) >= WeightUnit - WeightUnit \div 100
    /\ SumOver(w, DOMAIN w) <= WeightUnit + WeightUnit \div 100
    /\ \A k \in DOMAIN w : w[k] >= 0 /\ w[k] <= WeightUnit

\* C26, first half: saveUserStrategy called with a weight set that fails
\* validation raises 'Invalid weights configuration' and leaves the stored
\* preferences as they were.
C26_RejectedSaveChangesNothing ==
    (saveOutcome.called /\ saveOutcome.via = "service"
        /\ ~validateWeights(saveOutcome.weights, saveOutcome.over)) =>
            /\ saveOutcome.threw
            /\ saveOutcome.message = "Invalid weights configuration"
            /\ userPreference = saveOutcome.before

\* C26 (as stated): a save that fails validation raises and changes
\* nothing, so after any sequence of save calls every stored custom weight
\* set sums to within 0.01 of 1.0 with each weight in [0, 1].
C26_StoredWeightsSumToOne ==
    /\ C26_RejectedSaveChangesNothing
    /\ \A userWallet \in Wallets :
          (userPreference[userWallet].exists
              /\ userPreference[userWallet].custom_weights # Null) =>
                 SumsToOne(userPreference[userWallet].custom_weights)

-----------------------------------------------------------------------------
(* Properties of the health monitor step by step (SpecUpsert, SpecOverlap) *)

\* C33: the 'DB unreachable' warning is logged once per step at most, and
\* after the first time only if an upsert has succeeded since the last
\* warning, whatever the provider and the run of the failing upsert.
C33_WarnedOncePerOutage ==
    [][warnLog'.warnings # warnLog.warnings =>
          /\ warnLog'.warnings = warnLog.warnings + 1
          /\ ~dbUp
          /\ warnLog.warnings = 0 \/ warnLog.okSince]_vars

\* the upserts of the first run failed and one warning was logged; the
\* database came back, lifi's upsert of the second run succeeded, it went
\* down again and the next failure was logged as the second warning
C33_Witness ==
    /\ warnLog = [warnings |-> 2, okSince |-> FALSE]
    /\ dbUnreachableLogged
    /\ ~dbUp
    /\ upserts = {}
    /\ providerReliability["lifi"].exists
    /\ providerReliability["lifi"].health_check_last_run = 2 * CronPeriod
    /\ ~providerReliability["mayan"].exists

\* C37 (as stated): the last_checked time the health map holds for a
\* provider never decreases, also when a run that is still in progress at
\* the next scheduled run finishes after it.
C37_LastCheckedNeverDecreases ==
    [][\A p \in ProviderNames :
          (healthCache[p] # Null /\ healthCache'[p] # Null) =>
              healthCache'[p].last_checked >= healthCache[p].last_checked]_vars

-----------------------------------------------------------------------------
(* Properties of the health monitor (SpecHealth) *)

\* C20 (as stated): as long as every upsert has reached the database, the
\* stored consecutive_failures of a provider is the number of unhealthy
\* checks since its last healthy check, the first check ever included.
C20_ConsecutiveFailuresCounted ==
    ~upsertLost =>
        \A p \in ProviderNames :
            healthCache[p] # Null =>
                /\ providerReliability[p].exists
                /\ providerReliability[p].consecutive_failures = failureRun[p]

\* C21: after a run of performHealthChecks the health map holds, for every
\* connector, the outcome of that run, whether the database answered or not,
\* and the run has raised nothing.
C21_HealthMapAlwaysUpdated ==
    healthRun.ran =>
        /\ ~healthRun.threw
        /\ \A p \in ProviderNames :
              healthCache[p] = healthCheck(p, healthRun.outcome[p], healthRun.at)

\* the second run finds the database down and lifi unhealthy after a first
\* run that found it healthy: the entry is overwritten, no row is written
C21_Witness ==
    /\ healthRun.ran
    /\ ~healthRun.dbUp
    /\ healthRun.at = 2 * CronPeriod
    /\ providerReliability["lifi"].exists
    /\ providerReliability["lifi"].is_healthy
    /\ providerReliability["lifi"].health_check_last_run = CronPeriod
    /\ healthCache["lifi"] = healthCheck("lifi", FALSE, 2 * CronPeriod)
    /\ dbUnreachableLogged

====
